---- MODULE Spec2Model ----
(***************************************************************************)
(* tinfoil-js: the attestation verifier (Verifier.verifyBundle), the       *)
(* bundle assembler's retry helper (withRetry / assembleAttestationBundle) *)
(* and the SecureClient state machine (ready / reset / fetch).             *)
(*                                                                         *)
(* Three specifications share the module:                                  *)
(*   SpecVerifier  one Verifier instance, verifyBundle run step by step    *)
(*   SpecAsm       one assembleAttestationBundle call with its withRetry   *)
(*                 loops                                                   *)
(*   Spec          one SecureClient with concurrent ready()/fetch() calls, *)
(*                 reset() and the promise chains they leave behind        *)
(* Each specification leaves the other parts' variables untouched.         *)
(***************************************************************************)
EXTENDS Integers, Sequences, FiniteSets, TLC

VARIABLES
  \* ---- Verifier (packages/verifier client) ----
  vpc,        \* position inside verifyBundle
  vsteps,     \* the local `steps` object of the running call
  vdoc,       \* this.verificationDocument of the Verifier
  vdomain,    \* bundle.domain of the running call
  vlog,       \* steps executed by the running call, in execution order
  vthrown,    \* error thrown by the last call (NoErr when none)
  vcalls,     \* verifyBundle calls made on this instance
  \* ---- assembleAttestationBundle and its withRetry loops ----
  apc,        \* position inside assembleAttestationBundle
  ar,         \* per use of withRetry: loop state
  areq,       \* requests issued so far, per URL
  athrown,    \* error assembleAttestationBundle rejected with
  acause,     \* per use of withRetry: what its last failed attempt failed with
  \* ---- SecureClient ----
  config,               \* this.config (set by the constructor, never changed)
  initPromise,          \* this.initPromise: 0 for null, else a flight
  transport,            \* this._transport: NoTransport for null
  verificationDocument, \* this.verificationDocument
  resolvedEnclaveURL,   \* this.resolvedEnclaveURL
  resolvedBaseURL,      \* this.resolvedBaseURL
  flights,              \* the promise chains ready() has started
  nflights,             \* how many of them
  calls,                \* the ready() and fetch() calls of the callers
  resets,               \* reset() calls made by callers and by fetch
  \* ---- functions checked on their own ----
  cert,                 \* one verifyCertificate call: arguments and result
  meas,                 \* one compareMeasurements call: arguments and result
  sig,                  \* one verifySigstoreBundle call: arguments and result
  dc,                   \* one decodeDomains call: payload, SANs and result
  ctor,                 \* one new SecureClient(options): options and result
  vk,                   \* CertificateChain.fromReport calls, the VCEK cache and the fetches
  vr,                   \* one validateReport call: report, options and result
  vc,                   \* verifyChain calls on one chain: certificates, clock and results
  ct,                   \* one createTransport call: mode, attested keys, arguments and result
  pol                   \* one validatePolicy call: report policy, required policy and result

vvars == <<vpc, vsteps, vdoc, vdomain, vlog, vthrown, vcalls>>
avars == <<apc, ar, areq, athrown, acause>>
cvars == <<config, initPromise, transport, verificationDocument,
           resolvedEnclaveURL, resolvedBaseURL, flights, nflights, calls,
           resets>>
pvars == <<cert, meas, sig, dc, ctor, vk, vr, vc, ct, pol>>
vars == <<vvars, avars, cvars, pvars>>

----------------------------------------------------------------------------
(* Errors.  An error value keeps its class and its message.                *)

ErrClasses == {"FetchError", "AttestationError", "ConfigurationError", "Error"}
Msgs == {"m1", "m2"}
NoMsg == "-"
NoErr == [cls |-> "none", msg |-> NoMsg]
Errors == [cls : ErrClasses, msg : Msgs]

Domains == {"d1", "d2"}
NoDomain == ""

----------------------------------------------------------------------------
(* Verification documents.                                                 *)

Pending == [status |-> "pending", error |-> NoMsg]
Success == [status |-> "success", error |-> NoMsg]
Failed(err) == [status |-> "failed", error |-> err.msg]

\* The order in which verifyBundle runs its steps.
VerifyOrder == <<"verifyEnclave", "verifyCode", "compareMeasurements",
                 "verifyCertificate">>
AllSteps == {"fetchDigest", "verifyCode", "verifyEnclave",
             "compareMeasurements", "verifyCertificate"}

\* `steps` at verifyBundle entry.
InitialSteps ==
  [s \in AllSteps |-> IF s = "fetchDigest" THEN Success ELSE Pending]

NoDoc == [enclaveHost |-> NoDomain, securityVerified |-> FALSE,
          steps |-> <<>>, defined |-> FALSE]

saveFailedVerificationDocument(steps, domain) ==
  [enclaveHost |-> domain, securityVerified |-> FALSE,
   steps |-> steps, defined |-> TRUE]

SuccessDocument(steps, domain) ==
  [enclaveHost |-> domain, securityVerified |-> TRUE,
   steps |-> steps, defined |-> TRUE]

\* steps.<name> = { status: 'success' }
StepSucceeds(steps, name) == [steps EXCEPT ![name] = Success]

\* Variant of StepFails that loses the error message.
StepFailsWithoutMessage(steps, name, err) ==
  [steps EXCEPT ![name] = [status |-> "failed", error |-> NoMsg]]

\* steps.<name> = { status: 'failed', error: error.message }
StepFails(steps, name, err) == [steps EXCEPT ![name] = Failed(err)]

\* The outer catch of verifyBundle: a failure document is saved only when
\* the instance holds none yet.
OuterCatchDocument(doc, steps, domain) ==
  IF doc.defined THEN doc ELSE saveFailedVerificationDocument(steps, domain)

----------------------------------------------------------------------------
(* Bounds of the Verifier specification.                                   *)

MaxVerifyCalls == 2

IndexOfStep(name) == CHOOSE i \in 1..Len(VerifyOrder) : VerifyOrder[i] = name

\* Variant of NextPc that compares measurements before verifying the code.
NextPcOutOfOrder(name) ==
  CASE name = "verifyEnclave" -> "compareMeasurements"
    [] name = "compareMeasurements" -> "verifyCode"
    [] name = "verifyCode" -> "verifyCertificate"
    [] OTHER -> "buildDocument"

\* The position that follows a successful step.
NextPc(name) ==
  IF IndexOfStep(name) = Len(VerifyOrder) THEN "buildDocument"
  ELSE VerifyOrder[IndexOfStep(name) + 1]

\* verifyBundle(bundle): entry.  A Verifier may be asked again after a call
\* has returned or thrown.
VerifyBundleCall ==
  /\ vpc \in {"idle", "returned", "threw"}
  /\ vcalls < MaxVerifyCalls
  /\ \E d \in Domains : vdomain' = d
  /\ vsteps' = InitialSteps
  /\ vlog' = <<>>
  /\ vthrown' = NoErr
  /\ vcalls' = vcalls + 1
  /\ vpc' = VerifyOrder[1]
  /\ UNCHANGED vdoc
  /\ UNCHANGED <<avars, cvars, pvars>>

\* One of the four try blocks: the step runs and succeeds.
VerifyStepOk ==
  /\ vpc \in {VerifyOrder[i] : i \in 1..Len(VerifyOrder)}
  /\ vlog' = Append(vlog, vpc)
  /\ vsteps' = StepSucceeds(vsteps, vpc)
  /\ vpc' = NextPc(vpc)
  /\ UNCHANGED <<vdoc, vdomain, vthrown, vcalls>>
  /\ UNCHANGED <<avars, cvars, pvars>>

\* One of the four try blocks: the step runs and throws.  The inner catch
\* marks the step, saves the failure document and rethrows; the outer catch
\* then finds a document and rethrows again.
VerifyStepThrows ==
  /\ vpc \in {VerifyOrder[i] : i \in 1..Len(VerifyOrder)}
  /\ \E e \in Errors :
       /\ vlog' = Append(vlog, vpc)
       /\ vsteps' = StepFails(vsteps, vpc, e)
       /\ vdoc' = OuterCatchDocument(
                    saveFailedVerificationDocument(vsteps', vdomain),
                    vsteps', vdomain)
       /\ vthrown' = e
  /\ vpc' = "threw"
  /\ UNCHANGED <<vdomain, vcalls>>
  /\ UNCHANGED <<avars, cvars, pvars>>

\* "Build successful verification document": both fingerprints resolve.
BuildDocumentOk ==
  /\ vpc = "buildDocument"
  /\ vdoc' = SuccessDocument(vsteps, vdomain)
  /\ vpc' = "returned"
  /\ UNCHANGED <<vsteps, vdomain, vlog, vthrown, vcalls>>
  /\ UNCHANGED <<avars, cvars, pvars>>

\* measurementFingerprint rejects while the document is being built: only
\* the outer catch sees the error.
BuildDocumentThrows ==
  /\ vpc = "buildDocument"
  /\ \E e \in Errors : vthrown' = e
  /\ vdoc' = OuterCatchDocument(vdoc, vsteps, vdomain)
  /\ vpc' = "threw"
  /\ UNCHANGED <<vsteps, vdomain, vlog, vcalls>>
  /\ UNCHANGED <<avars, cvars, pvars>>

VerifierInit ==
  /\ vpc = "idle"
  /\ vsteps = InitialSteps
  /\ vdoc = NoDoc
  /\ vdomain = NoDomain
  /\ vlog = <<>>
  /\ vthrown = NoErr
  /\ vcalls = 0

VerifierNext ==
  \/ VerifyBundleCall
  \/ VerifyStepOk
  \/ VerifyStepThrows
  \/ BuildDocumentOk
  \/ BuildDocumentThrows


----------------------------------------------------------------------------
(* The bundle assembler: assembleAttestationBundle and withRetry.          *)

MAX_RETRIES == 2

\* The five uses of withRetry, named after what they fetch.
Uses == {"attestation", "digest", "sigstore", "vcek", "cert"}

\* The URLs the wrapped functions request.  fetchLatestDigest requests the
\* release and, when the release body holds no digest, the tinfoil.hash asset.
Urls == {"tinfoil-attestation", "releases/latest", "tinfoil.hash",
         "attestations/sha256", "kds/vcek", "tinfoil-certificate"}

PrimaryUrl(u) ==
  CASE u = "attestation" -> "tinfoil-attestation"
    [] u = "digest" -> "releases/latest"
    [] u = "sigstore" -> "attestations/sha256"
    [] u = "vcek" -> "kds/vcek"
    [] u = "cert" -> "tinfoil-certificate"

\* An assembler error keeps its class and the attempt that raised it.
NoAErr == [cls |-> "none", attempt |-> 0]
AErr(c, n) == [cls |-> c, attempt |-> n]

\* What one HTTP exchange of a wrapped function may fail with: fetch()
\* itself rejects, the status is not 2xx, the body does not parse, or (for
\* the Sigstore bundle) the parsed body holds no bundle.
HttpFailures == {"networkError", "non2xx", "malformedBody"}
NoCause == "none"

FnFailures(u) ==
  CASE u = "vcek" -> {"networkError", "non2xx"}
    [] u = "sigstore" -> HttpFailures \cup {"noBundle"}
    [] OTHER -> HttpFailures

\* The class of the error a wrapped function rejects with.  Every fetcher
\* throws a FetchError on a non-2xx status; fetchGithubAttestationBundle
\* also wraps a rejected fetch() and a body that is no JSON into a
\* FetchError, the others let the TypeError or SyntaxError through.
FnErrorClass(u, o) ==
  IF o = "non2xx" \/ u = "sigstore" THEN "FetchError" ELSE "Error"

IdleRetry == [st |-> "idle", i |-> 0, attempts |-> 0, err |-> NoAErr,
              delay |-> 0]

\* setTimeout(r, 500 * Math.pow(2, i))
BackoffMs(i) == 500 * (2 ^ i)

\* Variant of withRetryCatch whose loop runs one round more.
withRetryCatchOneMore(i, e) ==
  IF i = MAX_RETRIES + 1 \/ e.cls # "FetchError" THEN "throw" ELSE "backoff"

\* catch (e) { if (i === MAX_RETRIES || !(e instanceof FetchError)) throw e; }
withRetryCatch(i, e) ==
  IF i = MAX_RETRIES \/ e.cls # "FetchError" THEN "throw" ELSE "backoff"

\* withRetry(fn) is entered: i = 0 and the first fn() is awaited.
withRetryEnter(r) == [r EXCEPT !.st = "pending", !.i = 0]

\* The awaited fn() resolved: withRetry returns its value.
withRetryResolved(r) ==
  [r EXCEPT !.st = "ok", !.attempts = r.attempts + 1]

\* The awaited fn() rejected with an error of class c.
withRetryRejected(r, c) ==
  LET e == AErr(c, r.attempts + 1) IN
  IF withRetryCatch(r.i, e) = "throw"
  THEN [r EXCEPT !.st = "threw", !.attempts = r.attempts + 1, !.err = e]
  ELSE [r EXCEPT !.st = "backoff", !.attempts = r.attempts + 1, !.err = e,
                 !.delay = BackoffMs(r.i)]

\* The backoff timer fired: i++ and fn() is called again.
withRetryBackoffOver(r) == [r EXCEPT !.st = "pending", !.i = r.i + 1]

\* wrapOrThrow(e, FetchError, ...): a TinfoilError is rethrown as it is,
\* anything else is wrapped in a FetchError.
wrapOrThrow(e) ==
  IF e.cls \in {"FetchError", "AttestationError", "ConfigurationError"}
  THEN e ELSE [e EXCEPT !.cls = "FetchError"]

\* assembleAttestationBundle(enclaveHost, configRepo) is called: the
\* attestation document and the digest are fetched in parallel.
AssembleCall ==
  /\ apc = "idle"
  /\ apc' = "parallel"
  /\ ar' = [ar EXCEPT !["attestation"] = withRetryEnter(@),
                      !["digest"] = withRetryEnter(@)]
  /\ UNCHANGED <<areq, athrown, acause>>
  /\ UNCHANGED <<vvars, cvars, pvars>>

\* One attempt of a wrapped function other than fetchLatestDigest resolves.
FnResolves(u) ==
  /\ u # "digest"
  /\ ar[u].st = "pending"
  /\ areq' = [areq EXCEPT ![PrimaryUrl(u)] = @ + 1]
  /\ ar' = [ar EXCEPT ![u] = withRetryResolved(@)]
  /\ UNCHANGED <<apc, athrown, acause>>
  /\ UNCHANGED <<vvars, cvars, pvars>>

\* One attempt of a wrapped function other than fetchLatestDigest rejects.
FnRejects(u) ==
  /\ u # "digest"
  /\ ar[u].st = "pending"
  /\ areq' = [areq EXCEPT ![PrimaryUrl(u)] = @ + 1]
  /\ \E o \in FnFailures(u) :
       /\ ar' = [ar EXCEPT ![u] = withRetryRejected(@, FnErrorClass(u, o))]
       /\ acause' = [acause EXCEPT ![u] = o]
  /\ UNCHANGED <<apc, athrown>>
  /\ UNCHANGED <<vvars, cvars, pvars>>

\* fetchLatestDigest: the release is requested; the digest is found in the
\* release body, or the request fails.
DigestFromRelease ==
  /\ ar["digest"].st = "pending"
  /\ areq' = [areq EXCEPT !["releases/latest"] = @ + 1]
  /\ \/ /\ ar' = [ar EXCEPT !["digest"] = withRetryResolved(@)]
        /\ UNCHANGED acause
     \/ \E o \in FnFailures("digest") :
          /\ ar' = [ar EXCEPT !["digest"] =
                      withRetryRejected(@, FnErrorClass("digest", o))]
          /\ acause' = [acause EXCEPT !["digest"] = o]
  /\ UNCHANGED <<apc, athrown>>
  /\ UNCHANGED <<vvars, cvars, pvars>>

\* fetchLatestDigest: the release body holds no digest and the tinfoil.hash
\* asset is requested as well.
DigestFromHashAsset ==
  /\ ar["digest"].st = "pending"
  /\ areq' = [areq EXCEPT !["releases/latest"] = @ + 1,
                          !["tinfoil.hash"] = @ + 1]
  /\ \/ /\ ar' = [ar EXCEPT !["digest"] = withRetryResolved(@)]
        /\ UNCHANGED acause
     \/ \E o \in {"networkError", "non2xx"} :
          /\ ar' = [ar EXCEPT !["digest"] =
                      withRetryRejected(@, FnErrorClass("digest", o))]
          /\ acause' = [acause EXCEPT !["digest"] = o]
  /\ UNCHANGED <<apc, athrown>>
  /\ UNCHANGED <<vvars, cvars, pvars>>

\* await new Promise(r => setTimeout(r, 500 * Math.pow(2, i)))
BackoffElapsed(u) ==
  /\ ar[u].st = "backoff"
  /\ ar' = [ar EXCEPT ![u] = withRetryBackoffOver(@)]
  /\ UNCHANGED <<apc, areq, athrown, acause>>
  /\ UNCHANGED <<vvars, cvars, pvars>>

\* Variant of PromiseAllResolved that goes on once both fetches settled,
\* whatever they settled with.
PromiseAllSettled ==
  \A u \in {"attestation", "digest"} : ar[u].st \in {"ok", "threw"}

\* await Promise.all([...]) resolves when both fetches resolved.
PromiseAllResolved ==
  \A u \in {"attestation", "digest"} : ar[u].st = "ok"

\* Promise.all resolved: the Sigstore bundle is fetched next.
ParallelResolved ==
  /\ apc = "parallel"
  /\ PromiseAllResolved
  /\ apc' = "sigstore"
  /\ ar' = [ar EXCEPT !["sigstore"] = withRetryEnter(@)]
  /\ UNCHANGED <<areq, athrown, acause>>
  /\ UNCHANGED <<vvars, cvars, pvars>>

\* Promise.all rejected with the first rejection; the other fetch goes on.
ParallelRejected ==
  /\ apc = "parallel"
  /\ \E u \in {"attestation", "digest"} :
       /\ ar[u].st = "threw"
       /\ athrown' = ar[u].err
  /\ apc' = "threw"
  /\ UNCHANGED <<ar, areq, acause>>
  /\ UNCHANGED <<vvars, cvars, pvars>>

\* The Sigstore bundle arrived; the attestation report is parsed and the
\* VCEK fetch is started.
ReportParsed ==
  /\ apc = "sigstore"
  /\ ar["sigstore"].st = "ok"
  /\ apc' = "vcek"
  /\ ar' = [ar EXCEPT !["vcek"] = withRetryEnter(@)]
  /\ UNCHANGED <<areq, athrown, acause>>
  /\ UNCHANGED <<vvars, cvars, pvars>>

\* The Sigstore bundle arrived but the report does not decode: the error
\* goes through wrapOrThrow and no VCEK is requested.
ReportParseFails ==
  /\ apc = "sigstore"
  /\ ar["sigstore"].st = "ok"
  /\ \E c \in {"AttestationError", "Error"} :
       athrown' = wrapOrThrow(AErr(c, 0))
  /\ apc' = "threw"
  /\ UNCHANGED <<ar, areq, acause>>
  /\ UNCHANGED <<vvars, cvars, pvars>>

\* The VCEK arrived: the enclave certificate is fetched.
VcekResolved ==
  /\ apc = "vcek"
  /\ ar["vcek"].st = "ok"
  /\ apc' = "cert"
  /\ ar' = [ar EXCEPT !["cert"] = withRetryEnter(@)]
  /\ UNCHANGED <<areq, athrown, acause>>
  /\ UNCHANGED <<vvars, cvars, pvars>>

\* withRetry gave up on a sequential fetch: assembleAttestationBundle
\* rejects (the VCEK error through wrapOrThrow).
SequentialRejected ==
  /\ \E u \in {"sigstore", "vcek", "cert"} :
       /\ apc = u
       /\ ar[u].st = "threw"
       /\ athrown' = IF u = "vcek" THEN wrapOrThrow(ar[u].err) ELSE ar[u].err
  /\ apc' = "threw"
  /\ UNCHANGED <<ar, areq, acause>>
  /\ UNCHANGED <<vvars, cvars, pvars>>

\* The enclave certificate arrived: the bundle is returned.
AssembleReturns ==
  /\ apc = "cert"
  /\ ar["cert"].st = "ok"
  /\ apc' = "done"
  /\ UNCHANGED <<ar, areq, athrown, acause>>
  /\ UNCHANGED <<vvars, cvars, pvars>>

AsmInit ==
  /\ apc = "idle"
  /\ ar = [u \in Uses |-> IdleRetry]
  /\ areq = [x \in Urls |-> 0]
  /\ athrown = NoAErr
  /\ acause = [u \in Uses |-> NoCause]

AsmNext ==
  \/ AssembleCall
  \/ \E u \in Uses : FnResolves(u)
  \/ \E u \in Uses : FnRejects(u)
  \/ DigestFromRelease
  \/ DigestFromHashAsset
  \/ \E u \in Uses : BackoffElapsed(u)
  \/ ParallelResolved
  \/ ParallelRejected
  \/ ReportParsed
  \/ ReportParseFails
  \/ VcekResolved
  \/ SequentialRejected
  \/ AssembleReturns

----------------------------------------------------------------------------
(* SecureClient: ready(), reset(), fetch() and the initialization passes.  *)

MaxFlights == 3
NCallers == 2
MaxResets == 1

Flights == 1..MaxFlights
Callers == 1..NCallers

\* URLs are kept as tuples: <<>> is undefined.
NoURL == <<>>
ConfigEnclaveURL == <<"https://", "custom-enclave">>
ConfigBaseURL == <<"https://", "proxy">>

\* The options a client may be constructed with (the constructor has
\* accepted them).
Configs == [enclaveURL : {NoURL, ConfigEnclaveURL},
            baseURL : {NoURL, ConfigBaseURL}]

\* this.config.enclaveURL ?? `https://${bundle.domain}`
ResolveEnclaveURL(cfg, domain) ==
  IF cfg.enclaveURL # NoURL THEN cfg.enclaveURL ELSE <<"https://", domain>>

\* this.config.baseURL ?? `${this.resolvedEnclaveURL}/v1/`
ResolveBaseURL(cfg, enclaveURL) ==
  IF cfg.baseURL # NoURL THEN cfg.baseURL ELSE enclaveURL \o <<"/v1/">>

\* createPendingVerificationDocument(configRepo)
createPendingVerificationDocument ==
  [enclaveHost |-> NoDomain, securityVerified |-> FALSE,
   steps |-> [s \in AllSteps \ {"verifyCertificate"} |-> Pending],
   defined |-> TRUE]

NoTransport == [flight |-> 0, pass |-> 0]

\* Errors of the client part carry where they were raised as message.
CErr(c, where) == [cls |-> c, msg |-> where]
PassMsg(pass) == IF pass = 1 THEN "pass1" ELSE "pass2"

\* fetchAttestationBundle: what the HTTP exchange with ATC may end in.
BundleFetchOutcomes == {"ok", "networkError", "non2xx", "malformedBody"}

\* The class of the error fetchAttestationBundle rejects with: fetch()
\* itself rejects with a TypeError, a non-2xx status is turned into a
\* FetchError, response.json() rejects with a SyntaxError.
fetchAttestationBundleError(outcome) ==
  CASE outcome = "non2xx" -> "FetchError"
    [] outcome = "networkError" -> "Error"
    [] outcome = "malformedBody" -> "Error"

\* The steps verifyBundle has run when it fails at step failAt (1..4), or
\* after all of them for failAt = 0 (success) and 5 (fingerprint failure).
RECURSIVE RunSteps(_, _, _, _)
RunSteps(steps, i, failAt, e) ==
  IF i > Len(VerifyOrder) THEN steps
  ELSE IF i = failAt THEN StepFails(steps, VerifyOrder[i], e)
  ELSE RunSteps(StepSucceeds(steps, VerifyOrder[i]), i + 1, failAt, e)

\* verifier.getVerificationDocument() after verifyBundle settled on a new
\* Verifier.
verifyBundleDocument(domain, failAt, e) ==
  LET steps == RunSteps(InitialSteps, 1, failAt, e) IN
  IF failAt = 0 THEN SuccessDocument(steps, domain)
  ELSE OuterCatchDocument(NoDoc, steps, domain)

\* The ways verifyBundle is let fail: <<the failing point, the error's class>>
\* (point 5 is the fingerprint computation after the last step).
VerifyFailures == {<<1, "AttestationError">>, <<3, "AttestationError">>,
                   <<5, "Error">>}
CreateErrClasses == {"Error", "FetchError"}

\* Variant of IsTransient that retries on every error.
IsTransientAlways(e) == TRUE

\* err instanceof FetchError || err instanceof AttestationError
IsTransient(e) == e.cls \in {"FetchError", "AttestationError"}

\* Variant of isKeyConfigMismatchError that takes every error for a key
\* configuration mismatch.
isKeyConfigMismatchErrorAnyError(e) == TRUE

\* function isKeyConfigMismatchError(error)
isKeyConfigMismatchError(e) == e.cls = "KeyConfigMismatchError"

IdleFlight == [pos |-> "unused", pass |-> 0, err |-> NoErr,
               domain |-> NoDomain]

\* Variant of initSecureClient that takes every pass for the first one of
\* its ready(): the catch handler of a retry retries again.
initSecureClientFirstPass(fl) ==
  [fl EXCEPT !.pos = "fetchBundle", !.pass = 1, !.err = NoErr]

\* initSecureClient() runs up to its first await: fetchAttestationBundle
\* has been called.
initSecureClient(fl) ==
  [fl EXCEPT !.pos = "fetchBundle", !.pass = fl.pass + 1, !.err = NoErr]

\* One call of a caller: the flight it awaits, the transports it sent the
\* request on, what the first send threw, the flight of its recovery and
\* what the call settled with.
IdleCall == [kind |-> "none", pos |-> "idle", flight |-> 0,
             outcome |-> NoErr, sends |-> <<>>, thrown |-> NoErr,
             recovery |-> 0]

\* Variant of readyJoins that never reuses the promise in flight.
readyNeverJoins(p) == FALSE

\* ready(): `if (!this.initPromise)` fails, the promise in flight is reused.
readyJoins(p) == p # 0

\* The flight a ready() call made now awaits.
ReadyFlight == IF readyJoins(initPromise) THEN initPromise ELSE nflights + 1

\* ready(): a new promise chain is started unless one is in flight.
Ready ==
  /\ ~readyJoins(initPromise) => nflights < MaxFlights
  /\ initPromise' = ReadyFlight
  /\ nflights' = IF readyJoins(initPromise) THEN nflights ELSE nflights + 1
  /\ flights' = IF readyJoins(initPromise) THEN flights
                ELSE [flights EXCEPT ![nflights + 1] = initSecureClient(IdleFlight)]

\* Variant of clearDerivedState that keeps the transport.
clearDerivedStateKeepsTransport ==
  /\ transport' = transport
  /\ verificationDocument' = createPendingVerificationDocument
  /\ resolvedEnclaveURL' = NoURL
  /\ resolvedBaseURL' = NoURL

\* clearDerivedState()
clearDerivedState ==
  /\ transport' = NoTransport
  /\ verificationDocument' = createPendingVerificationDocument
  /\ resolvedEnclaveURL' = NoURL
  /\ resolvedBaseURL' = NoURL

\* reset() (the caller of this operator says what follows for initPromise).
reset == clearDerivedState

\* client.ready() is called.
ReadyCall(c) ==
  /\ calls[c].pos = "idle"
  /\ Ready
  /\ calls' = [calls EXCEPT ![c] =
       [IdleCall EXCEPT !.kind = "ready", !.pos = "awaitReady",
                        !.flight = ReadyFlight]]
  /\ UNCHANGED <<config, transport, verificationDocument, resolvedEnclaveURL,
                 resolvedBaseURL, resets>>
  /\ UNCHANGED <<vvars, avars, pvars>>

\* The promise a ready() call awaits has settled.
ReadySettles(c) ==
  /\ calls[c].kind = "ready"
  /\ calls[c].pos = "awaitReady"
  /\ flights[calls[c].flight].pos \in {"resolved", "rejected"}
  /\ calls' = [calls EXCEPT ![c].pos = "done",
                            ![c].outcome =
                               IF flights[calls[c].flight].pos = "resolved"
                               THEN CErr("ok", "ready")
                               ELSE flights[calls[c].flight].err]
  /\ UNCHANGED <<config, initPromise, transport, verificationDocument,
                 resolvedEnclaveURL, resolvedBaseURL, flights, nflights,
                 resets>>
  /\ UNCHANGED <<vvars, avars, pvars>>

\* client.reset() is called by a caller.
Reset ==
  /\ resets < MaxResets
  /\ initPromise' = 0
  /\ reset
  /\ resets' = resets + 1
  /\ UNCHANGED <<config, flights, nflights, calls>>
  /\ UNCHANGED <<vvars, avars, pvars>>

\* fetchAttestationBundle resolved with a bundle: both URLs are resolved
\* and verifier.verifyBundle(bundle) is called.
BundleFetched(f) ==
  /\ flights[f].pos = "fetchBundle"
  /\ \E d \in Domains :
       /\ resolvedEnclaveURL' = ResolveEnclaveURL(config, d)
       /\ resolvedBaseURL' = ResolveBaseURL(config, resolvedEnclaveURL')
       /\ flights' = [flights EXCEPT ![f].pos = "verify", ![f].domain = d]
  /\ UNCHANGED <<config, initPromise, transport, verificationDocument,
                 nflights, calls, resets>>
  /\ UNCHANGED <<vvars, avars, pvars>>

\* fetchAttestationBundle rejected: initSecureClient rejects with its error.
BundleFetchFails(f) ==
  /\ flights[f].pos = "fetchBundle"
  /\ \E o \in BundleFetchOutcomes \ {"ok"} :
       flights' = [flights EXCEPT ![f].pos = "passFailed",
                     ![f].err = CErr(fetchAttestationBundleError(o),
                                     PassMsg(flights[f].pass))]
  /\ UNCHANGED <<config, initPromise, transport, verificationDocument,
                 resolvedEnclaveURL, resolvedBaseURL, nflights, calls,
                 resets>>
  /\ UNCHANGED <<vvars, avars, pvars>>

\* Variant of AfterVerifyBundle that goes on to createTransport whatever
\* verifyBundle settled with.
AfterVerifyBundleIgnoresFailure(resolved) == "createTransport"

\* The try block of initSecureClient: createTransport is reached only when
\* the awaited verifyBundle resolved; a rejection leaves the block.
AfterVerifyBundle(resolved) ==
  IF resolved THEN "createTransport" ELSE "passFailed"

\* verifyBundle resolved: createTransport calls createSecureFetch.
VerifyResolves(f) ==
  /\ flights[f].pos = "verify"
  /\ flights' = [flights EXCEPT ![f].pos = AfterVerifyBundle(TRUE)]
  /\ UNCHANGED <<config, initPromise, transport, verificationDocument,
                 resolvedEnclaveURL, resolvedBaseURL, nflights, calls,
                 resets>>
  /\ UNCHANGED <<vvars, avars, pvars>>

\* verifyBundle rejected: the finally block captures the verifier's
\* document and initSecureClient rejects.
VerifyRejects(f) ==
  /\ flights[f].pos = "verify"
  /\ \E vf \in VerifyFailures :
       LET e == CErr(vf[2], PassMsg(flights[f].pass)) IN
       /\ verificationDocument' =
            verifyBundleDocument(flights[f].domain, vf[1], e)
       /\ flights' = [flights EXCEPT ![f].pos = AfterVerifyBundle(FALSE),
                         ![f].err = e,
                         ![f].domain =
                            IF AfterVerifyBundle(FALSE) = "passFailed"
                            THEN NoDomain ELSE @]
  /\ UNCHANGED <<config, initPromise, transport, resolvedEnclaveURL,
                 resolvedBaseURL, nflights, calls, resets>>
  /\ UNCHANGED <<vvars, avars, pvars>>

\* createSecureFetch resolved: the transport is installed, the finally
\* block captures the verifier's document, initSecureClient resolves.
TransportCreated(f) ==
  /\ flights[f].pos = "createTransport"
  /\ transport' = [flight |-> f, pass |-> flights[f].pass]
  /\ verificationDocument' = verifyBundleDocument(flights[f].domain, 0, NoErr)
  /\ flights' = [flights EXCEPT ![f].pos = "resolved", ![f].domain = NoDomain]
  /\ UNCHANGED <<config, initPromise, resolvedEnclaveURL, resolvedBaseURL,
                 nflights, calls, resets>>
  /\ UNCHANGED <<vvars, avars, pvars>>

\* createSecureFetch rejected: the finally block still captures the
\* verifier's document, initSecureClient rejects.
TransportCreationFails(f) ==
  /\ flights[f].pos = "createTransport"
  /\ verificationDocument' = verifyBundleDocument(flights[f].domain, 0, NoErr)
  /\ \E c \in CreateErrClasses :
       flights' = [flights EXCEPT ![f].pos = "passFailed",
                     ![f].err = CErr(c, PassMsg(flights[f].pass)),
                     ![f].domain = NoDomain]
  /\ UNCHANGED <<config, initPromise, transport, resolvedEnclaveURL,
                 resolvedBaseURL, nflights, calls, resets>>
  /\ UNCHANGED <<vvars, avars, pvars>>

\* The catch handler of the first pass, transient error: derived state is
\* cleared (initPromise is kept) and the retry delay starts.
ReadyCatchTransient(f) ==
  /\ flights[f].pos = "passFailed"
  /\ flights[f].pass = 1
  /\ IsTransient(flights[f].err)
  /\ clearDerivedState
  /\ flights' = [flights EXCEPT ![f].pos = "delay"]
  /\ UNCHANGED <<config, initPromise, nflights, calls, resets>>
  /\ UNCHANGED <<vvars, avars, pvars>>

\* The catch handlers that give up (first pass, any other error; second
\* pass, any error): reset() and rethrow.
ReadyCatchRethrows(f) ==
  /\ flights[f].pos = "passFailed"
  /\ flights[f].pass = 1 => ~IsTransient(flights[f].err)
  /\ initPromise' = 0
  /\ reset
  /\ flights' = [flights EXCEPT ![f].pos = "rejected"]
  /\ UNCHANGED <<config, nflights, calls, resets>>
  /\ UNCHANGED <<vvars, avars, pvars>>

\* INIT_RETRY_DELAY_MS elapsed: initSecureClient() is called again.
RetryDelayElapsed(f) ==
  /\ flights[f].pos = "delay"
  /\ flights' = [flights EXCEPT ![f] = initSecureClient(@)]
  /\ UNCHANGED <<config, initPromise, transport, verificationDocument,
                 resolvedEnclaveURL, resolvedBaseURL, nflights, calls,
                 resets>>
  /\ UNCHANGED <<vvars, avars, pvars>>

TransportErrClasses == {"KeyConfigMismatchError", "Error"}

\* client.fetch(input, init) is called: `await this.ready()`.
FetchCall(c) ==
  /\ calls[c].pos = "idle"
  /\ Ready
  /\ calls' = [calls EXCEPT ![c] =
       [IdleCall EXCEPT !.kind = "fetch", !.pos = "awaitReady",
                        !.flight = ReadyFlight]]
  /\ UNCHANGED <<config, transport, verificationDocument, resolvedEnclaveURL,
                 resolvedBaseURL, resets>>
  /\ UNCHANGED <<vvars, avars, pvars>>

\* An awaited ready() rejected (the first one, or the one of the recovery):
\* fetch rejects with its error.
FetchReadyRejected(c) ==
  /\ calls[c].kind = "fetch"
  /\ calls[c].pos \in {"awaitReady", "awaitRecovery"}
  /\ flights[calls[c].flight].pos = "rejected"
  /\ calls' = [calls EXCEPT ![c].pos = "done",
                            ![c].outcome = flights[calls[c].flight].err]
  /\ UNCHANGED <<config, initPromise, transport, verificationDocument,
                 resolvedEnclaveURL, resolvedBaseURL, flights, nflights,
                 resets>>
  /\ UNCHANGED <<vvars, avars, pvars>>

\* The first ready() resolved: `this._transport!.fetch(input, init)`.
\* On a null transport the call throws a TypeError inside the try block,
\* which is no KeyConfigMismatchError and is rethrown.
FetchDispatch(c) ==
  /\ calls[c].kind = "fetch"
  /\ calls[c].pos = "awaitReady"
  /\ flights[calls[c].flight].pos = "resolved"
  /\ calls' = IF transport = NoTransport
              THEN [calls EXCEPT ![c].pos = "done",
                                 ![c].outcome = CErr("TypeError", "send1")]
              ELSE [calls EXCEPT ![c].pos = "sent",
                                 ![c].sends = Append(@, transport)]
  /\ UNCHANGED <<config, initPromise, transport, verificationDocument,
                 resolvedEnclaveURL, resolvedBaseURL, flights, nflights,
                 resets>>
  /\ UNCHANGED <<vvars, avars, pvars>>

\* The transport answered the first send with a response.
TransportResponds(c) ==
  /\ calls[c].kind = "fetch"
  /\ calls[c].pos = "sent"
  /\ calls' = [calls EXCEPT ![c].pos = "done",
                            ![c].outcome = CErr("ok", "send1")]
  /\ UNCHANGED <<config, initPromise, transport, verificationDocument,
                 resolvedEnclaveURL, resolvedBaseURL, flights, nflights,
                 resets>>
  /\ UNCHANGED <<vvars, avars, pvars>>

\* The transport threw on the first send, not a KeyConfigMismatchError:
\* `throw error`.
TransportThrows(c) ==
  /\ calls[c].kind = "fetch"
  /\ calls[c].pos = "sent"
  /\ \E k \in TransportErrClasses :
       /\ ~isKeyConfigMismatchError(CErr(k, "send1"))
       /\ calls' = [calls EXCEPT ![c].pos = "done",
                                 ![c].thrown = CErr(k, "send1"),
                                 ![c].outcome = CErr(k, "send1")]
  /\ UNCHANGED <<config, initPromise, transport, verificationDocument,
                 resolvedEnclaveURL, resolvedBaseURL, flights, nflights,
                 resets>>
  /\ UNCHANGED <<vvars, avars, pvars>>

\* The transport threw a KeyConfigMismatchError on the first send:
\* `this.reset(); await this.ready();`.
TransportKeyMismatch(c) ==
  /\ calls[c].kind = "fetch"
  /\ calls[c].pos = "sent"
  /\ nflights < MaxFlights
  /\ reset
  /\ initPromise' = nflights + 1
  /\ nflights' = nflights + 1
  /\ flights' = [flights EXCEPT ![nflights + 1] = initSecureClient(IdleFlight)]
  /\ \E k \in TransportErrClasses :
       /\ isKeyConfigMismatchError(CErr(k, "send1"))
       /\ calls' = [calls EXCEPT ![c].pos = "awaitRecovery",
                                 ![c].thrown = CErr(k, "send1"),
                                 ![c].flight = nflights + 1,
                                 ![c].recovery = nflights + 1]
  /\ resets' = resets + 1
  /\ UNCHANGED config
  /\ UNCHANGED <<vvars, avars, pvars>>

\* The ready() of the recovery resolved: the request is sent again (a null
\* transport throws a TypeError out of the catch block).
FetchRedispatch(c) ==
  /\ calls[c].kind = "fetch"
  /\ calls[c].pos = "awaitRecovery"
  /\ flights[calls[c].flight].pos = "resolved"
  /\ calls' = IF transport = NoTransport
              THEN [calls EXCEPT ![c].pos = "done",
                                 ![c].outcome = CErr("TypeError", "send2")]
              ELSE [calls EXCEPT ![c].pos = "resent",
                                 ![c].sends = Append(@, transport)]
  /\ UNCHANGED <<config, initPromise, transport, verificationDocument,
                 resolvedEnclaveURL, resolvedBaseURL, flights, nflights,
                 resets>>
  /\ UNCHANGED <<vvars, avars, pvars>>

\* The transport settled the second send: its response or its error, of
\* whatever class, is the result of fetch.
TransportSettlesRetry(c) ==
  /\ calls[c].kind = "fetch"
  /\ calls[c].pos = "resent"
  /\ \E k \in TransportErrClasses \cup {"ok"} :
       calls' = [calls EXCEPT ![c].pos = "done",
                              ![c].outcome = CErr(k, "send2")]
  /\ UNCHANGED <<config, initPromise, transport, verificationDocument,
                 resolvedEnclaveURL, resolvedBaseURL, flights, nflights,
                 resets>>
  /\ UNCHANGED <<vvars, avars, pvars>>

ClientInit ==
  /\ config \in Configs
  /\ initPromise = 0
  /\ transport = NoTransport
  /\ verificationDocument = createPendingVerificationDocument
  /\ resolvedEnclaveURL = NoURL
  /\ resolvedBaseURL = NoURL
  /\ flights = [f \in Flights |-> IdleFlight]
  /\ nflights = 0
  /\ calls = [c \in Callers |-> IdleCall]
  /\ resets = 0

Next ==
  \/ \E c \in Callers : ReadyCall(c)
  \/ \E c \in Callers : ReadySettles(c)
  \/ Reset
  \/ \E f \in Flights : BundleFetched(f)
  \/ \E f \in Flights : BundleFetchFails(f)
  \/ \E f \in Flights : VerifyResolves(f)
  \/ \E f \in Flights : VerifyRejects(f)
  \/ \E f \in Flights : TransportCreated(f)
  \/ \E f \in Flights : TransportCreationFails(f)
  \/ \E f \in Flights : ReadyCatchTransient(f)
  \/ \E f \in Flights : ReadyCatchRethrows(f)
  \/ \E f \in Flights : RetryDelayElapsed(f)
  \/ \E c \in Callers : FetchCall(c)
  \/ \E c \in Callers : FetchReadyRejected(c)
  \/ \E c \in Callers : FetchDispatch(c)
  \/ \E c \in Callers : TransportResponds(c)
  \/ \E c \in Callers : TransportThrows(c)
  \/ \E c \in Callers : TransportKeyMismatch(c)
  \/ \E c \in Callers : FetchRedispatch(c)
  \/ \E c \in Callers : TransportSettlesRetry(c)

----------------------------------------------------------------------------
(* Certificate SANs: dcode decoding, domain matching, verifyCertificate.   *)
(* A DNS name is the sequence of its labels and a label the sequence of    *)
(* its characters, so that slicing, splitting on '.' and searching for     *)
(* '.prefix.' are computed as the code computes them.                      *)

\* const B32 = 'ABCDEFGHIJKLMNOPQRSTUVWXYZ234567'
B32 == <<"A", "B", "C", "D", "E", "F", "G", "H", "I", "J", "K", "L", "M",
         "N", "O", "P", "Q", "R", "S", "T", "U", "V", "W", "X", "Y", "Z",
         "2", "3", "4", "5", "6", "7">>

LowerCase == <<"a", "b", "c", "d", "e", "f", "g", "h", "i", "j", "k", "l",
               "m", "n", "o", "p", "q", "r", "s", "t", "u", "v", "w", "x",
               "y", "z">>

Digits == <<"0", "1", "2", "3", "4", "5", "6", "7", "8", "9">>

HexDigits == Digits \o <<"a", "b", "c", "d", "e", "f">>

\* c.toUpperCase() of one character
toUpperCase(c) ==
  IF \E i \in 1..Len(LowerCase) : LowerCase[i] = c
  THEN B32[CHOOSE i \in 1..Len(LowerCase) : LowerCase[i] = c]
  ELSE c

\* B32.indexOf(c)
B32IndexOf(c) ==
  IF \E i \in 1..Len(B32) : B32[i] = c
  THEN (CHOOSE i \in 1..Len(B32) : B32[i] = c) - 1
  ELSE -1

\* input.replace(/=+$/, '')
RECURSIVE StripPadding(_)
StripPadding(s) ==
  IF s # <<>> /\ s[Len(s)] = "=" THEN StripPadding(SubSeq(s, 1, Len(s) - 1))
  ELSE s

DecodeError(reason) == [ok |-> FALSE, bytes |-> <<>>, reason |-> reason]
Decoded(bytes) == [ok |-> TRUE, bytes |-> bytes, reason |-> "-"]

\* The loop of base32Decode: val = (val << 5) | i on 32-bit integers, a
\* byte is emitted whenever 8 bits are gathered.  The shift that reads val
\* is at most 4 and is masked with 0xff, so only the low 12 bits of val are
\* ever read; the 26 low bits are kept here.
RECURSIVE base32Loop(_, _, _, _, _)
base32Loop(s, k, bits, val, out) ==
  IF k > Len(s) THEN Decoded(out)
  ELSE
    LET i == B32IndexOf(s[k])
        v == (val * 32 + i) % (2 ^ 26)
        b == bits + 5
    IN IF i < 0 THEN DecodeError("Invalid base32")
       ELSE IF b >= 8
       THEN base32Loop(s, k + 1, b - 8, v,
                       Append(out, (v \div (2 ^ (b - 8))) % 256))
       ELSE base32Loop(s, k + 1, b, v, out)

\* base32Decode(input)
base32Decode(input) ==
  LET s == StripPadding([k \in 1..Len(input) |-> toUpperCase(input[k])])
  IN IF s = <<>> THEN Decoded(<<>>) ELSE base32Loop(s, 1, 0, 0, <<>>)

\* d.includes(`.${prefix}.`): the prefix is a label with a dot on both sides
includesPrefix(d, prefix) == \E i \in 2..(Len(d) - 1) : d[i] = prefix

\* +a.slice(0, 2): the number the first two characters of the name spell
\* (a digit and the dot behind a one-character label spell the digit), -1
\* standing for NaN.
DigitValue(c) == (CHOOSE i \in 1..Len(Digits) : Digits[i] = c) - 1
IsDigit(c) == \E i \in 1..Len(Digits) : Digits[i] = c
ChunkIndex(d) ==
  IF d # <<>> /\ Len(d[1]) >= 2 /\ IsDigit(d[1][1]) /\ IsDigit(d[1][2])
  THEN 10 * DigitValue(d[1][1]) + DigitValue(d[1][2])
  ELSE IF d # <<>> /\ Len(d[1]) = 1 /\ IsDigit(d[1][1])
  THEN DigitValue(d[1][1])
  ELSE -1

\* The comparator of the sort: a NaN difference counts as 0.
ChunkCompare(a, b) ==
  IF ChunkIndex(a) < 0 \/ ChunkIndex(b) < 0 THEN 0
  ELSE ChunkIndex(a) - ChunkIndex(b)

\* Array.prototype.sort with ChunkCompare (stable): insertion of x into a
\* sorted sequence, behind the elements it does not precede.
RECURSIVE InsertSorted(_, _)
InsertSorted(sorted, x) ==
  IF sorted = <<>> THEN <<x>>
  ELSE IF ChunkCompare(x, sorted[Len(sorted)]) >= 0 THEN Append(sorted, x)
  ELSE Append(InsertSorted(SubSeq(sorted, 1, Len(sorted) - 1), x),
              sorted[Len(sorted)])

RECURSIVE SortByChunkIndex(_)
SortByChunkIndex(ds) ==
  IF ds = <<>> THEN <<>>
  ELSE InsertSorted(SortByChunkIndex(SubSeq(ds, 1, Len(ds) - 1)), ds[Len(ds)])

\* d.split('.')[0].slice(2)
ChunkOf(d) == SubSeq(d[1], 3, Len(d[1]))

\* .join('')
RECURSIVE JoinChunks(_)
JoinChunks(ds) ==
  IF ds = <<>> THEN <<>> ELSE ChunkOf(Head(ds)) \o JoinChunks(Tail(ds))

\* Variant of decodeDomains that joins the chunks in the order of the list.
decodeDomainsUnsorted(domains, prefix) ==
  LET chunks == JoinChunks(SelectSeq(domains,
                                     LAMBDA d : includesPrefix(d, prefix)))
  IN IF chunks = <<>> THEN DecodeError("No domains with prefix")
     ELSE base32Decode(chunks)

\* decodeDomains(domains, prefix)
decodeDomains(domains, prefix) ==
  LET chunks == JoinChunks(SortByChunkIndex(
                  SelectSeq(domains, LAMBDA d : includesPrefix(d, prefix))))
  IN IF chunks = <<>> THEN DecodeError("No domains with prefix")
     ELSE base32Decode(chunks)

\* bytesToHex(b)
RECURSIVE bytesToHex(_)
bytesToHex(b) ==
  IF b = <<>> THEN <<>>
  ELSE <<HexDigits[(Head(b) \div 16) + 1], HexDigits[(Head(b) % 16) + 1]>>
       \o bytesToHex(Tail(b))

\* getParentDomain(domain)
getParentDomain(domain) ==
  IF Len(domain) <= 2 THEN domain ELSE Tail(domain)

\* san.startsWith('*.')
IsWildcard(san) == Len(san) >= 2 /\ san[1] = <<"*">>

\* Variant of domainMatchesSans whose wildcard also matches the parent
\* domain itself.
domainMatchesSansApexToo(sans, expectedDomain) ==
  \E k \in 1..Len(sans) :
    \/ sans[k] = expectedDomain
    \/ /\ IsWildcard(sans[k])
       /\ Tail(sans[k]) = getParentDomain(expectedDomain)

\* domainMatchesSans(sans, expectedDomain)
domainMatchesSans(sans, expectedDomain) ==
  \E k \in 1..Len(sans) :
    \/ sans[k] = expectedDomain
    \/ /\ IsWildcard(sans[k])
       /\ Tail(sans[k]) = getParentDomain(expectedDomain)
       /\ expectedDomain # getParentDomain(expectedDomain)

\* new TextDecoder().decode(hashBytes): the characters of the bytes; a byte
\* that is no ASCII hex digit is shown as "?".
DecodeChar(b) ==
  IF b \in 48..57 THEN HexDigits[b - 47]
  ELSE IF b \in 97..102 THEN HexDigits[b - 86]
  ELSE "?"
TextDecode(bytes) == [k \in 1..Len(bytes) |-> DecodeChar(bytes[k])]

\* hashAttestationDocument(doc): hex of the SHA-256 of format || body.  The
\* digest is cut to one byte; different documents have different digests.
Docs == {"docA", "docB"}
DocDigest(doc) == IF doc = "docA" THEN <<171>> ELSE <<18>>
hashAttestationDocument(doc) == bytesToHex(DocDigest(doc))

HPKE == <<"h", "p", "k", "e">>
HATT == <<"h", "a", "t", "t">>

CertThrows(reason) ==
  [status |-> "threw", cls |-> "AttestationError", reason |-> reason,
   hpkePublicKey |-> <<>>, attestationHash |-> <<>>]
CertReturns(key, hash) ==
  [status |-> "returned", cls |-> "none", reason |-> "-",
   hpkePublicKey |-> key, attestationHash |-> hash]

\* Variant of verifyCertificate that does not compare the attestation hash.
verifyCertificateNoHash(certPem, expectedDomain, attestationDoc, expectedHpkeKey) ==
  LET sans == certPem.sans
      hpke == decodeDomains(SelectSeq(sans,
                 LAMBDA s : includesPrefix(s, HPKE)), HPKE)
  IN IF ~certPem.parses THEN CertThrows("parse")
     ELSE IF sans = <<>> THEN CertThrows("no SANs")
     ELSE IF ~domainMatchesSans(sans, expectedDomain)
     THEN CertThrows("domain mismatch")
     ELSE IF ~hpke.ok THEN CertThrows("no HPKE key")
     ELSE IF bytesToHex(hpke.bytes) # expectedHpkeKey
     THEN CertThrows("HPKE key mismatch")
     ELSE CertReturns(bytesToHex(hpke.bytes),
                      hashAttestationDocument(attestationDoc))

\* verifyCertificate(certPem, expectedDomain, attestationDoc,
\* expectedHpkeKey); a certificate is whether it parses and its DNS SANs.
verifyCertificate(certPem, expectedDomain, attestationDoc, expectedHpkeKey) ==
  LET sans == certPem.sans
      hpkeSans == SelectSeq(sans, LAMBDA s : includesPrefix(s, HPKE))
      hattSans == SelectSeq(sans, LAMBDA s : includesPrefix(s, HATT))
      hpke == decodeDomains(hpkeSans, HPKE)
      hatt == decodeDomains(hattSans, HATT)
      computedHash == hashAttestationDocument(attestationDoc)
  IN IF ~certPem.parses THEN CertThrows("parse")
     ELSE IF sans = <<>> THEN CertThrows("no SANs")
     ELSE IF ~domainMatchesSans(sans, expectedDomain)
     THEN CertThrows("domain mismatch")
     ELSE IF hpkeSans = <<>> THEN CertThrows("no HPKE key")
     ELSE IF ~hpke.ok THEN CertThrows("HPKE key not decodable")
     ELSE IF bytesToHex(hpke.bytes) # expectedHpkeKey
     THEN CertThrows("HPKE key mismatch")
     ELSE IF hattSans = <<>> THEN CertThrows("no attestation hash")
     ELSE IF ~hatt.ok THEN CertThrows("attestation hash not decodable")
     ELSE IF TextDecode(hatt.bytes) # computedHash
     THEN CertThrows("attestation hash mismatch")
     ELSE CertReturns(bytesToHex(hpke.bytes), computedHash)

\* Bound of the certificate specification: the SANs of a certificate.
MaxSans == 3

LabelEx == <<"e", "x">>
LabelCom == <<"c", "o", "m">>
LabelSub == <<"s", "u", "b">>
LabelA == <<"a">>
LabelStar == <<"*">>

\* The DNS names certificates are made of: plain and wildcard names, the
\* HPKE keys 5a and ff, a chunk that is no base32, the hashes of docA and
\* docB (the ASCII of "ab" and of "12").
SanPool ==
  { <<LabelSub, LabelEx, LabelCom>>,
    <<LabelStar, LabelEx, LabelCom>>,
    <<LabelStar, LabelCom>>,
    <<LabelEx, LabelCom>>,
    << <<"0", "0", "l", "i">>, HPKE, LabelEx, LabelCom>>,
    << <<"0", "0", "7", "4">>, HPKE, LabelEx, LabelCom>>,
    << <<"0", "0", "l", "1">>, HPKE, LabelEx, LabelCom>>,
    << <<"0", "0", "m", "f", "r", "a">>, HATT, LabelEx, LabelCom>>,
    << <<"0", "0", "g", "e", "z", "a">>, HATT, LabelEx, LabelCom>> }

\* Lists of distinct names of the pool.
SanLists ==
  UNION { { l \in [1..n -> SanPool] :
              \A i, j \in 1..n : l[i] = l[j] => i = j } : n \in 0..MaxSans }

CertDomains == { <<LabelSub, LabelEx, LabelCom>>, <<LabelEx, LabelCom>>,
                 <<LabelA, LabelSub, LabelEx, LabelCom>> }
HpkeKeys == { <<"5", "a">>, <<"f", "f">> }

NoCertResult ==
  [status |-> "none", cls |-> "none", reason |-> "-",
   hpkePublicKey |-> <<>>, attestationHash |-> <<>>]

CertIdle ==
  cert = [pem |-> [parses |-> FALSE, sans |-> <<>>], domain |-> <<>>,
          doc |-> "docA", key |-> <<>>, out |-> NoCertResult]

\* The arguments of one verifyCertificate call.
CertInputs ==
  \E l \in SanLists, p \in BOOLEAN, d \in CertDomains, a \in Docs,
     k \in HpkeKeys :
    /\ ~p => l = <<>>
    /\ cert = [pem |-> [parses |-> p, sans |-> l], domain |-> d, doc |-> a,
               key |-> k, out |-> NoCertResult]

\* await verifyCertificate(enclaveCert, domain, attestationDoc, hpkeKey)
VerifyCertificateCall ==
  /\ cert.out.status = "none"
  /\ cert' = [cert EXCEPT !.out =
                verifyCertificate(cert.pem, cert.domain, cert.doc, cert.key)]
  /\ UNCHANGED <<vvars, avars, cvars, meas, sig, dc, ctor, vk, vr, vc, ct, pol>>

----------------------------------------------------------------------------
(* compareMeasurements (types.ts).                                         *)

SevGuestV2 == "sev-snp-guest/v2"
SnpTdxMultiplatformV1 == "snp-tdx-multiplatform/v1"
SevGuestV1 == "sev-snp-guest/v1"
PredicateTypes == {SevGuestV1, SevGuestV2, SnpTdxMultiplatformV1}

\* Bound of the measurement specification: the registers of a measurement.
MaxRegisters == 2
Registers == {"r1", "r2"}
RegisterLists == UNION { [1..n -> Registers] : n \in 0..MaxRegisters }
Measurements == [type : PredicateTypes, registers : RegisterLists]

\* The first register of each side is there and they agree.
FirstRegistersMatch(a, b) ==
  /\ Len(a.registers) >= 1
  /\ Len(b.registers) >= 1
  /\ a.registers[1] = b.registers[1]

\* Variant of compareMeasurements without the reverse direction.
compareMeasurementsOneWay(a, b) ==
  IF a.type = b.type
  THEN IF a.registers = b.registers THEN "ok" ELSE "ValidationError"
  ELSE IF a.type = SnpTdxMultiplatformV1 /\ b.type = SevGuestV2
  THEN IF FirstRegistersMatch(a, b) THEN "ok" ELSE "ValidationError"
  ELSE "ValidationError"

\* compareMeasurements(a, b): "ok" when it returns, else the class thrown.
compareMeasurements(a, b) ==
  IF a.type = b.type
  THEN IF Len(a.registers) # Len(b.registers)
          \/ \E i \in 1..Len(a.registers) : a.registers[i] # b.registers[i]
       THEN "ValidationError" ELSE "ok"
  ELSE IF a.type = SnpTdxMultiplatformV1 /\ b.type = SevGuestV2
  THEN IF FirstRegistersMatch(a, b) THEN "ok" ELSE "ValidationError"
  ELSE IF a.type = SevGuestV2 /\ b.type = SnpTdxMultiplatformV1
  THEN IF FirstRegistersMatch(a, b) THEN "ok" ELSE "ValidationError"
  ELSE "ValidationError"

NoMeasurement == [type |-> SevGuestV2, registers |-> <<>>]
MeasIdle == meas = [a |-> NoMeasurement, b |-> NoMeasurement, out |-> "none"]
MeasInputs ==
  \E a \in Measurements, b \in Measurements :
    meas = [a |-> a, b |-> b, out |-> "none"]

\* compareMeasurements(a, b)
CompareMeasurementsCall ==
  /\ meas.out = "none"
  /\ meas' = [meas EXCEPT !.out = compareMeasurements(meas.a, meas.b)]
  /\ UNCHANGED <<vvars, avars, cvars, cert, sig, dc, ctor, vk, vr, vc, ct, pol>>

----------------------------------------------------------------------------
(* verifySigstoreBundle (verifier/src/client.ts).                          *)

InToto == "application/vnd.in-toto+json"
PayloadTypes == {InToto, "application/octet-stream"}

\* Hex digests, cut to two characters; the second is the first in capitals.
SigDigests == { <<"a", "b">>, <<"A", "B">>, <<"1", "2">> }
NoSubject == <<>>

\* payload.predicate: missing, without snp_measurement, or with one.
Predicates == {"missing", "empty"} \cup Registers

\* What the library and the payload give one call: whether verifyDsse
\* accepts the envelope under the policy, whether the payload is JSON, and
\* the fields of the payload.
SigBundles ==
  [dsse : {"ok", "throws"}, parses : BOOLEAN, payloadType : PayloadTypes,
   predicateType : PredicateTypes, subject : SigDigests \cup {NoSubject},
   predicate : Predicates]

SigThrows(cls) ==
  [status |-> "threw", cls |-> cls, type |-> "-", registers |-> <<>>]
SigReturns(type, registers) ==
  [status |-> "returned", cls |-> "none", type |-> type,
   registers |-> registers]

\* The body of the try block of verifySigstoreBundle.
verifySigstoreBundleTry(bundle, digest) ==
  IF bundle.dsse = "throws" THEN SigThrows("Error")
  ELSE IF ~bundle.parses THEN SigThrows("SyntaxError")
  ELSE IF bundle.payloadType # InToto THEN SigThrows("AttestationError")
  ELSE IF bundle.subject = NoSubject THEN SigThrows("TypeError")
  ELSE IF digest # bundle.subject THEN SigThrows("AttestationError")
  ELSE IF bundle.predicate = "missing" THEN SigThrows("AttestationError")
  ELSE IF bundle.predicateType = SnpTdxMultiplatformV1
  THEN IF bundle.predicate = "empty" THEN SigThrows("AttestationError")
       ELSE SigReturns(bundle.predicateType, <<bundle.predicate>>)
  ELSE SigThrows("AttestationError")

\* Variant of verifySigstoreBundle that takes the measurement of any
\* predicate type.
verifySigstoreBundleAnyPredicate(bundle, digest) ==
  LET r == verifySigstoreBundleTry(
             [bundle EXCEPT !.predicateType = SnpTdxMultiplatformV1], digest)
  IN IF r.status = "returned"
     THEN SigReturns(bundle.predicateType, r.registers)
     ELSE SigThrows("AttestationError")

\* verifySigstoreBundle(bundleJson, digest, repo): the catch passes what was
\* thrown through wrapOrThrow(e, AttestationError, ...).
verifySigstoreBundle(bundle, digest) ==
  LET r == verifySigstoreBundleTry(bundle, digest)
  IN IF r.status = "threw"
        /\ r.cls \notin {"FetchError", "AttestationError",
                          "ConfigurationError"}
     THEN SigThrows("AttestationError")
     ELSE r

NoSigResult ==
  [status |-> "none", cls |-> "none", type |-> "-", registers |-> <<>>]
SigIdle ==
  sig = [bundle |-> [dsse |-> "throws", parses |-> FALSE,
                     payloadType |-> InToto, predicateType |-> SevGuestV1,
                     subject |-> NoSubject, predicate |-> "missing"],
         digest |-> <<>>, out |-> NoSigResult]
SigInputs ==
  \E b \in SigBundles, d \in SigDigests :
    sig = [bundle |-> b, digest |-> d, out |-> NoSigResult]

\* await verifySigstoreBundle(bundle.sigstoreBundle, digest, configRepo)
VerifySigstoreBundleCall ==
  /\ sig.out.status = "none"
  /\ sig' = [sig EXCEPT !.out = verifySigstoreBundle(sig.bundle, sig.digest)]
  /\ UNCHANGED <<vvars, avars, cvars, cert, meas, dc, ctor, vk, vr, vc, ct, pol>>

----------------------------------------------------------------------------
(* decodeDomains on the SANs an encoder makes of a payload.                *)

\* Bounds of the decoding specification: the bytes of a payload, the SANs
\* its base32 text is cut into, and the SANs of other kinds beside them.
MaxPayload == 2
MaxChunks == 3
MaxExtras == 1
PayloadBytes == {0, 90, 255}
Payloads == UNION { [1..n -> PayloadBytes] : n \in 0..MaxPayload }
ChunkIndexes == {0, 1, 9, 10}

\* The SANs of a certificate that hold no chunk of the HPKE key.
ExtraSans == { <<HPKE, LabelEx, LabelCom>>,
               << <<"0", "0", "m", "f", "r", "a">>, HATT, LabelEx, LabelCom>> }

\* RFC 4648 base32 of a byte sequence, in lower case and without padding.
Base32Char(i) == IF i < 26 THEN LowerCase[i + 1] ELSE B32[i + 1]
RECURSIVE Base32Encode(_, _, _)
Base32Encode(p, bits, val) ==
  IF bits >= 5
  THEN <<Base32Char((val \div (2 ^ (bits - 5))) % 32)>>
       \o Base32Encode(p, bits - 5, val % (2 ^ (bits - 5)))
  ELSE IF p = <<>>
  THEN IF bits = 0 THEN <<>>
       ELSE <<Base32Char((val * (2 ^ (5 - bits))) % 32)>>
  ELSE Base32Encode(Tail(p), bits + 8, val * 256 + Head(p))

\* NN<chunk>.hpke.ex.com
TwoDigits(i) == <<Digits[(i \div 10) + 1], Digits[(i % 10) + 1]>>
ChunkSan(i, chunk) == <<TwoDigits(i) \o chunk, HPKE, LabelEx, LabelCom>>

\* The ways to cut the text s at n - 1 places into n chunks, none empty
\* unless s is: the increasing sequences of the places.
Cuts(s, n) ==
  { c \in [0..n -> 0..Len(s)] :
      /\ c[0] = 0
      /\ c[n] = Len(s)
      /\ \A k \in 1..n : c[k - 1] < c[k] \/ (Len(s) = 0 /\ n = 1) }

\* The SANs that carry the payload p under n increasing indexes.
ChunkSanSets(p) ==
  LET s == Base32Encode(p, 0, 0)
  IN UNION { { { ChunkSan(idx[k], SubSeq(s, c[k - 1] + 1, c[k])) : k \in 1..n } :
               c \in Cuts(s, n),
               idx \in { f \in [1..n -> ChunkIndexes] :
                           \A j, k \in 1..n : j < k => f[j] < f[k] } } :
             n \in 1..MaxChunks }

\* Every list of the set S of names, each name once.
ListsOf(S) ==
  { l \in [1..Cardinality(S) -> S] :
      \A j, k \in 1..Cardinality(S) : l[j] = l[k] => j = k }

NoDecodeResult == [ok |-> FALSE, bytes |-> <<>>, reason |-> "none"]
DcodeIdle == dc = [payload |-> <<>>, sans |-> <<>>, out |-> NoDecodeResult]
DcodeInputs ==
  \E p \in Payloads :
    \E S \in ChunkSanSets(p) :
      \E E \in { X \in SUBSET ExtraSans : Cardinality(X) <= MaxExtras } :
        \E l \in ListsOf(S \cup E) :
          dc = [payload |-> p, sans |-> l, out |-> NoDecodeResult]

\* decodeDomains(sans, 'hpke')
DecodeDomainsCall ==
  /\ dc.out.reason = "none"
  /\ dc' = [dc EXCEPT !.out = decodeDomains(dc.sans, HPKE)]
  /\ UNCHANGED <<vvars, avars, cvars, cert, meas, sig, ctor, vk, vr, vc, ct, pol>>

----------------------------------------------------------------------------
(* new SecureClient(options) (secure-client.ts).                           *)

\* An option is undefined or a string; a string is the sequence of its
\* parts, a URL beginning with its scheme.
Undefined == [set |-> FALSE, s |-> <<>>]
Str(s) == [set |-> TRUE, s |-> s]

\* The truthiness of an option and String.prototype.startsWith.
Truthy(o) == o.set /\ o.s # <<>>
startsWith(o, part) == o.s # <<>> /\ o.s[1] = part

DEFAULT_ROUTER_REPO == Str(<<"tinfoilsh/confidential-model-router">>)

EnclaveURLOptions ==
  { Undefined, Str(<<>>), Str(<<"https://", "custom-enclave">>),
    Str(<<"http://", "custom-enclave">>), Str(<<"custom-enclave">>) }
ConfigRepoOptions == { Undefined, Str(<<>>), Str(<<"custom/repo">>) }
BaseURLOptions == { Undefined, Str(<<"https://", "proxy">>) }
TransportOptions == { Undefined, Str(<<"ehbp">>), Str(<<"tls">>) }
BundleURLOptions == { Undefined, Str(<<"https://", "atc">>) }

SecureClientOptions ==
  [enclaveURL : EnclaveURLOptions, configRepo : ConfigRepoOptions,
   baseURL : BaseURLOptions, transport : TransportOptions,
   attestationBundleURL : BundleURLOptions]

NoConfig == [defined |-> FALSE]
CtorThrows(cls) ==
  [status |-> "threw", cls |-> cls, warned |-> FALSE, requests |-> 0,
   config |-> NoConfig]
CtorReturns(warned, cfg) ==
  [status |-> "constructed", cls |-> "none", warned |-> warned,
   requests |-> 0, config |-> cfg]

\* constructor(options): the two checks, the warning and this.config; the
\* constructor sends no request.
SecureClientConstructor(options) ==
  IF Truthy(options.enclaveURL) /\ ~startsWith(options.enclaveURL, "https://")
  THEN CtorThrows("ConfigurationError")
  ELSE IF Truthy(options.configRepo) /\ ~Truthy(options.enclaveURL)
  THEN CtorThrows("ConfigurationError")
  ELSE CtorReturns(
         Truthy(options.enclaveURL) /\ ~Truthy(options.configRepo),
         [defined |-> TRUE,
          baseURL |-> options.baseURL,
          enclaveURL |-> options.enclaveURL,
          configRepo |-> IF options.configRepo.set THEN options.configRepo
                         ELSE DEFAULT_ROUTER_REPO,
          transport |-> IF Truthy(options.transport) THEN options.transport
                        ELSE Str(<<"ehbp">>),
          attestationBundleURL |-> options.attestationBundleURL])

NoCtorResult ==
  [status |-> "none", cls |-> "none", warned |-> FALSE, requests |-> 0,
   config |-> NoConfig]
CtorIdle ==
  ctor = [options |-> [enclaveURL |-> Undefined, configRepo |-> Undefined,
                       baseURL |-> Undefined, transport |-> Undefined,
                       attestationBundleURL |-> Undefined],
          out |-> NoCtorResult]
CtorInputs ==
  \E o \in SecureClientOptions : ctor = [options |-> o, out |-> NoCtorResult]

\* new SecureClient(options)
ConstructCall ==
  /\ ctor.out.status = "none"
  /\ ctor' = [ctor EXCEPT !.out = SecureClientConstructor(ctor.options)]
  /\ UNCHANGED <<vvars, avars, cvars, cert, meas, sig, dc, vk, vr, vc, ct, pol>>

----------------------------------------------------------------------------
(* CertificateChain.fromReport: the VCEK and its cache in localStorage.    *)

\* Bound of the VCEK specification: the fromReport calls made.
MaxChainCalls == 2
ChainCalls == 1..MaxChainCalls
Reports == {"r1", "r2"}

\* buildVCEKUrl(productName, chipId, reportedTcb): the URL names the chip
\* and the TCB of the report.
buildVCEKUrl(r) == <<"https://kds-proxy.tinfoil.sh/vcek/v1", r>>
VcekUrls == { buildVCEKUrl(r) : r \in Reports }

\* The DER bytes the KDS serves for a URL.
VcekDer(u) == IF u = buildVCEKUrl("r1") THEN <<48, 130, 255>> ELSE <<0, 77>>

\* A base64 text is the sequence of its characters, each the number it
\* stands for and Pad for '='.
Pad == 64

\* btoa(String.fromCharCode(...bytes))
RECURSIVE btoa(_)
btoa(b) ==
  IF b = <<>> THEN <<>>
  ELSE IF Len(b) = 1
  THEN <<b[1] \div 4, (b[1] % 4) * 16, Pad, Pad>>
  ELSE IF Len(b) = 2
  THEN <<b[1] \div 4, (b[1] % 4) * 16 + (b[2] \div 16), (b[2] % 16) * 4, Pad>>
  ELSE <<b[1] \div 4, (b[1] % 4) * 16 + (b[2] \div 16),
         (b[2] % 16) * 4 + (b[3] \div 64), b[3] % 64>>
       \o btoa(SubSeq(b, 4, Len(b)))

\* Uint8Array.from(atob(text), c => c.charCodeAt(0)): the bytes, or not ok
\* when atob throws.
RECURSIVE atobBytes(_)
atobBytes(t) ==
  IF t = <<>> THEN <<>>
  ELSE LET q == SubSeq(t, 1, 4)
           n == IF q[3] = Pad THEN 1 ELSE IF q[4] = Pad THEN 2 ELSE 3
           v == [k \in 1..4 |-> IF q[k] = Pad THEN 0 ELSE q[k]]
           all == <<v[1] * 4 + (v[2] \div 16),
                    (v[2] % 16) * 16 + (v[3] \div 4),
                    (v[3] % 4) * 64 + v[4]>>
       IN SubSeq(all, 1, n) \o atobBytes(SubSeq(t, 5, Len(t)))
atob(t) ==
  IF /\ Len(t) % 4 = 0
     /\ \A k \in 1..Len(t) : t[k] \in 0..Pad
     /\ \A k \in 1..Len(t) : t[k] = Pad => k > Len(t) - 2
     /\ (Len(t) > 0 /\ t[Len(t) - 1] = Pad) => t[Len(t)] = Pad
  THEN [ok |-> TRUE, bytes |-> atobBytes(t)]
  ELSE [ok |-> FALSE, bytes |-> <<>>]

\* localStorage.getItem gives null for a key without an item.
NoItem == <<-1>>
NotBase64 == <<99>>

\* Variant of CacheHit that never takes the item.
CacheHitNever(cached) == FALSE

\* if (cached)
CacheHit(cached) == cached # NoItem /\ cached # <<>>

IdleChainCall ==
  [report |-> "-", pos |-> "idle", vcek |-> <<>>, cached |-> FALSE,
   stored |-> FALSE, after |-> {}, product |-> "-", signer |-> "-",
   supplied |-> FALSE, error |-> "-", cacheRead |-> FALSE]
EmptyStorage == [u \in VcekUrls |-> NoItem]
VcekIdle ==
  vk = [browser |-> FALSE, storage |-> EmptyStorage,
        calls |-> [c \in ChainCalls |-> IdleChainCall],
        fetches |-> [u \in VcekUrls |-> 0]]

\* The environment: a browser or not, and what its localStorage holds from
\* earlier sessions: nothing, an item that is no base64, or the VCEK.
VcekInputs ==
  \E b \in BOOLEAN,
     item \in {NoItem, NotBase64, btoa(VcekDer(buildVCEKUrl("r1")))} :
    /\ ~b => item = NoItem
    /\ vk = [browser |-> b,
             storage |-> [EmptyStorage EXCEPT ![buildVCEKUrl("r1")] = item],
             calls |-> [c \in ChainCalls |-> IdleChainCall],
             fetches |-> [u \in VcekUrls |-> 0]]

ChainCallsDone == { c \in ChainCalls : vk.calls[c].pos = "done" }

Products == {"Genoa", "Milan"}
ReportSigners == {"VcekReportSigner", "VlekReportSigner"}
\* The DER bytes a caller supplies as vcekDer.
SuppliedDer == <<48, 1>>

\* Variant of ReportRefused that does not look at the signing key.
ReportRefusedForProduct(product, signer) ==
  IF product # "Genoa" THEN "Unsupported processor" ELSE "-"

\* The two checks fromReport begins with: the message of the
\* AttestationError thrown, or "-".
ReportRefused(product, signer) ==
  IF product # "Genoa" THEN "Unsupported processor"
  ELSE IF signer # "VcekReportSigner" THEN "Unsupported signing key"
  ELSE "-"

\* fetchVcekForReport(report) up to its first await: the item of the URL
\* is returned, or fetch is called (after removing an item that does not
\* decode).
fetchVcekForReport(c, started) ==
  LET u == buildVCEKUrl(started.report)
      cached == vk.storage[u]
      reading == [started EXCEPT !.cacheRead = vk.browser]
  IN IF vk.browser /\ CacheHit(cached) /\ atob(cached).ok
     THEN vk' = [vk EXCEPT !.calls[c] =
                   [reading EXCEPT !.pos = "done", !.cached = TRUE,
                                   !.vcek = atob(cached).bytes]]
     ELSE vk' = [vk EXCEPT
                   !.calls[c] = [reading EXCEPT !.pos = "fetching"],
                   !.fetches[u] = @ + 1,
                   !.storage[u] =
                      IF vk.browser /\ CacheHit(cached) THEN NoItem
                      ELSE @]

\* CertificateChain.fromReport(report, vcekDer) up to its first await: the
\* report is refused, or the supplied VCEK is taken, or
\* fetchVcekForReport is called.
FromReportCall(c, r) ==
  /\ vk.calls[c].pos = "idle"
  /\ \E product \in Products, signer \in ReportSigners,
        supplied \in BOOLEAN :
       LET started == [IdleChainCall EXCEPT !.report = r,
                         !.after = ChainCallsDone, !.product = product,
                         !.signer = signer, !.supplied = supplied]
       IN IF ReportRefused(product, signer) # "-"
          THEN vk' = [vk EXCEPT !.calls[c] =
                        [started EXCEPT !.pos = "threw",
                           !.error = ReportRefused(product, signer)]]
          ELSE IF supplied
          THEN vk' = [vk EXCEPT !.calls[c] =
                        [started EXCEPT !.pos = "done",
                                        !.vcek = SuppliedDer]]
          ELSE fetchVcekForReport(c, started)
  /\ UNCHANGED <<vvars, avars, cvars, cert, meas, sig, dc, ctor, vr, vc, ct, pol>>

\* fetchVCEK resolved; in a browser fetchAndCacheVCEK stores the base64 of
\* the bytes unless localStorage.setItem throws.
FetchVcekResponds(c) ==
  LET u == buildVCEKUrl(vk.calls[c].report) IN
  /\ vk.calls[c].pos = "fetching"
  /\ \E stored \in BOOLEAN :
       /\ stored => vk.browser
       /\ vk' = [vk EXCEPT
                   !.calls[c].pos = "done",
                   !.calls[c].vcek = VcekDer(u),
                   !.calls[c].stored = stored,
                   !.storage[u] = IF stored THEN btoa(VcekDer(u)) ELSE @]
  /\ UNCHANGED <<vvars, avars, cvars, cert, meas, sig, dc, ctor, vr, vc, ct, pol>>

\* fetchVCEK rejected (network failure or a status that is not 2xx).
FetchVcekFails(c) ==
  /\ vk.calls[c].pos = "fetching"
  /\ vk' = [vk EXCEPT !.calls[c].pos = "threw",
                      !.calls[c].error = "Failed to fetch VCEK"]
  /\ UNCHANGED <<vvars, avars, cvars, cert, meas, sig, dc, ctor, vr, vc, ct, pol>>

VcekNext ==
  \/ \E c \in ChainCalls, r \in Reports : FromReportCall(c, r)
  \/ \E c \in ChainCalls : FetchVcekResponds(c)
  \/ \E c \in ChainCalls : FetchVcekFails(c)

----------------------------------------------------------------------------
(* CertificateChain.verifyChain (sev/cert-chain).                          *)

MaxClock == 3
MaxChainVerifications == 2

\* What verifyChain reads of a certificate: formatOk is the outcome of
\* validateArkFormat / validateAskFormat / validateVcekFormat, notBefore and
\* notAfter bound the validity period, sigOk is the outcome of verify()
\* against the issuer.
Certificates ==
  [formatOk : BOOLEAN, notBefore : 0..1, notAfter : 1..(MaxClock - 1),
   sigOk : BOOLEAN]

\* X509Certificate.validForDate(date): both ends of the period included.
validForDate(c, date) == c.notBefore <= date /\ date <= c.notAfter

\* validForDate with the last instant of the period left out.
validBeforeEnd(c, date) == c.notBefore <= date /\ date < c.notAfter

ChainTrue == [status |-> "returned", error |-> "-"]
ChainThrows(msg) == [status |-> "AttestationError", error |-> msg]

\* Variant of verifyChain that returns false, not throwing, for a VCEK that
\* is outside its validity period or not signed by the ASK.
verifyChainReturnsFalse(chain, now) ==
  IF ~chain.ark.formatOk THEN ChainThrows("Invalid ARK certificate")
  ELSE IF ~chain.ask.formatOk THEN ChainThrows("Invalid ASK certificate")
  ELSE IF ~chain.vcek.formatOk THEN ChainThrows("Invalid VCEK certificate")
  ELSE IF ~validForDate(chain.ark, now) THEN ChainThrows("ARK expired")
  ELSE IF ~validForDate(chain.ask, now) THEN ChainThrows("ASK expired")
  ELSE IF ~chain.ark.sigOk THEN ChainThrows("ARK not self-signed")
  ELSE IF ~chain.ask.sigOk THEN ChainThrows("ASK not signed by ARK")
  ELSE [status |-> "returned",
        error |-> IF validForDate(chain.vcek, now) /\ chain.vcek.sigOk
                  THEN "-" ELSE "false"]

\* Variant of verifyChain that takes a certificate as expired at the last
\* instant of its validity period.
verifyChainBeforeEnd(chain, now) ==
  IF ~chain.ark.formatOk THEN ChainThrows("Invalid ARK certificate")
  ELSE IF ~chain.ask.formatOk THEN ChainThrows("Invalid ASK certificate")
  ELSE IF ~chain.vcek.formatOk THEN ChainThrows("Invalid VCEK certificate")
  ELSE IF ~validBeforeEnd(chain.ark, now) THEN ChainThrows("ARK expired")
  ELSE IF ~validBeforeEnd(chain.ask, now) THEN ChainThrows("ASK expired")
  ELSE IF ~validBeforeEnd(chain.vcek, now) THEN ChainThrows("VCEK expired")
  ELSE IF ~chain.ark.sigOk THEN ChainThrows("ARK not self-signed")
  ELSE IF ~chain.ask.sigOk THEN ChainThrows("ASK not signed by ARK")
  ELSE IF ~chain.vcek.sigOk THEN ChainThrows("VCEK not signed by ASK")
  ELSE ChainTrue

\* verifyChain(), with now the value of new Date() it reads.
verifyChain(chain, now) ==
  IF ~chain.ark.formatOk THEN ChainThrows("Invalid ARK certificate")
  ELSE IF ~chain.ask.formatOk THEN ChainThrows("Invalid ASK certificate")
  ELSE IF ~chain.vcek.formatOk THEN ChainThrows("Invalid VCEK certificate")
  ELSE IF ~validForDate(chain.ark, now) THEN ChainThrows("ARK expired")
  ELSE IF ~validForDate(chain.ask, now) THEN ChainThrows("ASK expired")
  ELSE IF ~validForDate(chain.vcek, now) THEN ChainThrows("VCEK expired")
  ELSE IF ~chain.ark.sigOk THEN ChainThrows("ARK not self-signed")
  ELSE IF ~chain.ask.sigOk THEN ChainThrows("ASK not signed by ARK")
  ELSE IF ~chain.vcek.sigOk THEN ChainThrows("VCEK not signed by ASK")
  ELSE ChainTrue

IdleCertificate ==
  [formatOk |-> FALSE, notBefore |-> 0, notAfter |-> 1, sigOk |-> FALSE]
VerifyChainIdle ==
  vc = [chain |-> [ark |-> IdleCertificate, ask |-> IdleCertificate,
                   vcek |-> IdleCertificate],
        now |-> 0, results |-> <<>>]
\* The ARK and the ASK are the certificates built into the verifier: well
\* formed, valid from the start; the VCEK is the one fetched or supplied.
VerifyChainInputs ==
  \E ark, ask, vcek \in Certificates :
    /\ ark.formatOk /\ ark.notBefore = 0
    /\ ask.formatOk /\ ask.notBefore = 0
    /\ vc = [chain |-> [ark |-> ark, ask |-> ask, vcek |-> vcek],
             now |-> 0, results |-> <<>>]

\* chain.verifyChain(): the chain is read, never written.
VerifyChainCall ==
  /\ Len(vc.results) < MaxChainVerifications
  /\ vc' = [vc EXCEPT !.results =
              Append(@, [at |-> vc.now, out |-> verifyChain(vc.chain, vc.now)])]
  /\ UNCHANGED <<vvars, avars, cvars, cert, meas, sig, dc, ctor, vk, vr, ct, pol>>

\* Time passes between two calls.
ClockTick ==
  /\ vc.now < MaxClock
  /\ vc' = [vc EXCEPT !.now = @ + 1]
  /\ UNCHANGED <<vvars, avars, cvars, cert, meas, sig, dc, ctor, vk, vr, ct, pol>>

VerifyChainNext == VerifyChainCall \/ ClockTick

----------------------------------------------------------------------------
(* SecureClient.createTransport and createSecureFetch.                     *)

TransportModes == {"ehbp", "tls"}
\* What verifyBundle may report for a key: undefined, '' or a value.
HpkeKeyOptions == { Undefined, Str(<<>>), Str(<<"hpke-key">>) }
TlsFingerprintOptions == { Undefined, Str(<<>>), Str(<<"tls-fingerprint">>) }

SecureFetchArgs(baseURL, hpke, tls, enclaveURL) ==
  [baseURL |-> baseURL, hpkePublicKey |-> hpke,
   tlsPublicKeyFingerprint |-> tls, enclaveURL |-> enclaveURL]

\* Variant of createTransport that hands both attested keys to
\* createSecureFetch whatever the mode.
createTransportBothKeys(mode, hpke, tls, baseURL, enclaveURL) ==
  SecureFetchArgs(baseURL, hpke, tls, enclaveURL)

\* createTransport(hpkePublicKey, tlsPublicKeyFingerprint): the arguments
\* createSecureFetch is called with.
createTransport(mode, hpke, tls, baseURL, enclaveURL) ==
  IF mode = "tls"
  THEN SecureFetchArgs(baseURL, Undefined, tls, enclaveURL)
  ELSE SecureFetchArgs(baseURL, hpke, Undefined, enclaveURL)

TransportThrew(msg) == [kind |-> "Error", key |-> Undefined, msg |-> msg]

\* createSecureFetch(baseURL, hpkePublicKey, tlsPublicKeyFingerprint,
\* enclaveURL), the arguments in the order createTransport and the tests
\* give them: the kind of session it opens and the key the session has.
createSecureFetch(a, browser) ==
  IF Truthy(a.hpkePublicKey)
  THEN [kind |-> "ehbp", key |-> a.hpkePublicKey, msg |-> "-"]
  ELSE IF browser THEN TransportThrew("HPKE public key not available")
  ELSE IF ~Truthy(a.tlsPublicKeyFingerprint)
  THEN TransportThrew("Neither HPKE public key nor TLS fingerprint")
  ELSE [kind |-> "tls", key |-> a.tlsPublicKeyFingerprint, msg |-> "-"]

NoSession == [kind |-> "none", key |-> Undefined, msg |-> "-"]
TransportIdle ==
  ct = [mode |-> "ehbp", hpke |-> Undefined, tls |-> Undefined,
        baseURL |-> NoURL, enclaveURL |-> NoURL, browser |-> FALSE,
        args |-> SecureFetchArgs(NoURL, Undefined, Undefined, NoURL),
        out |-> NoSession]
TransportInputs ==
  \E mode \in TransportModes, hpke \in HpkeKeyOptions,
     tls \in TlsFingerprintOptions, cfg \in Configs, browser \in BOOLEAN :
    LET enclaveURL == ResolveEnclaveURL(cfg, "d1") IN
    ct = [mode |-> mode, hpke |-> hpke, tls |-> tls,
          baseURL |-> ResolveBaseURL(cfg, enclaveURL),
          enclaveURL |-> enclaveURL, browser |-> browser,
          args |-> SecureFetchArgs(NoURL, Undefined, Undefined, NoURL),
          out |-> NoSession]

\* this._transport = await this.createTransport(attestation.hpkePublicKey,
\* attestation.tlsPublicKeyFingerprint)
CreateTransportCall ==
  /\ ct.out.kind = "none"
  /\ LET a == createTransport(ct.mode, ct.hpke, ct.tls, ct.baseURL,
                              ct.enclaveURL) IN
     ct' = [ct EXCEPT !.args = a, !.out = createSecureFetch(a, ct.browser)]
  /\ UNCHANGED <<vvars, avars, cvars, cert, meas, sig, dc, ctor, vk, vr, vc, pol>>

----------------------------------------------------------------------------
(* validatePolicy and comparePolicyVersions (sev/validation.ts).           *)

MaxAbi == 1
MaxFlagsSet == 2

\* The boolean fields of SnpPolicy that validatePolicy reads; a policy is
\* kept as its ABI version and the set of the fields that are true.
PolicyFlags ==
  {"migrateMa", "debug", "smt", "cxlAllowed", "memAes256Xts", "singleSocket",
   "raplDis", "ciphertextHidingDram", "pageSwapDisabled"}
SnpPolicies ==
  { p \in [abiMajor : 0..MaxAbi, abiMinor : 0..MaxAbi,
           flags : SUBSET PolicyFlags] : Cardinality(p.flags) <= MaxFlagsSet }

\* Variant of comparePolicyVersions that looks at the major version only.
comparePolicyVersionsMajorOnly(required, report) ==
  required.abiMajor - report.abiMajor

\* comparePolicyVersions(required, report)
comparePolicyVersions(required, report) ==
  IF required.abiMajor # report.abiMajor
  THEN required.abiMajor - report.abiMajor
  ELSE required.abiMinor - report.abiMinor

PolicyThrows(reason) == [status |-> "ValidationError", reason |-> reason]
PolicyAccepted == [status |-> "returned", reason |-> "-"]

\* `!required.f && reportPolicy.f`
Unauthorized(reportPolicy, required, f) ==
  f \notin required.flags /\ f \in reportPolicy.flags
\* `required.f && !reportPolicy.f`
Lacking(reportPolicy, required, f) ==
  f \in required.flags /\ f \notin reportPolicy.flags

\* validatePolicy(reportPolicy, required), its checks in their order.
validatePolicy(reportPolicy, required) ==
  IF comparePolicyVersions(required, reportPolicy) > 0
  THEN PolicyThrows("ABI version")
  ELSE IF Unauthorized(reportPolicy, required, "migrateMa")
  THEN PolicyThrows("migrateMa")
  ELSE IF Unauthorized(reportPolicy, required, "debug")
  THEN PolicyThrows("debug")
  ELSE IF Unauthorized(reportPolicy, required, "smt")
  THEN PolicyThrows("smt")
  ELSE IF Unauthorized(reportPolicy, required, "cxlAllowed")
  THEN PolicyThrows("cxlAllowed")
  ELSE IF Unauthorized(reportPolicy, required, "memAes256Xts")
  THEN PolicyThrows("memAes256Xts")
  ELSE IF Lacking(reportPolicy, required, "singleSocket")
  THEN PolicyThrows("singleSocket")
  ELSE IF Lacking(reportPolicy, required, "memAes256Xts")
  THEN PolicyThrows("memAes256Xts")
  ELSE IF Lacking(reportPolicy, required, "raplDis")
  THEN PolicyThrows("raplDis")
  ELSE IF Lacking(reportPolicy, required, "ciphertextHidingDram")
  THEN PolicyThrows("ciphertextHidingDram")
  ELSE IF Lacking(reportPolicy, required, "pageSwapDisabled")
  THEN PolicyThrows("pageSwapDisabled")
  ELSE PolicyAccepted

NoPolicy == [abiMajor |-> 0, abiMinor |-> 0, flags |-> {}]
NoPolicyResult == [status |-> "none", reason |-> "-"]
PolicyIdle ==
  pol = [report |-> NoPolicy, required |-> NoPolicy, out |-> NoPolicyResult]
PolicyInputs ==
  \E r, q \in SnpPolicies :
    pol = [report |-> r, required |-> q, out |-> NoPolicyResult]

\* validatePolicy(report.policyParsed, options.guestPolicy)
ValidatePolicyCall ==
  /\ pol.out.status = "none"
  /\ pol' = [pol EXCEPT !.out = validatePolicy(pol.report, pol.required)]
  /\ UNCHANGED <<vvars, avars, cvars, cert, meas, sig, dc, ctor, vk, vr, vc, ct>>

----------------------------------------------------------------------------
(* validateReport (sev/validation.ts).                                     *)

\* undefined for an option that is a number
NoNumber == 0 - 1

MaxSpl == 1

\* A TCB as the report holds it, a 64-bit number: its bytes 0, 1, 6 and 7
\* and the bytes 2 to 5 between them.
PackedTcb(bl, tee, mid, snp, ucode) ==
  [b0 |-> bl, b1 |-> tee, b2to5 |-> mid, b6 |-> snp, b7 |-> ucode]

\* tcbFromInt(u): the parts at bytes 0, 1, 6 and 7.
tcbFromInt(u) ==
  [blSpl |-> u.b0, teeSpl |-> u.b1, snpSpl |-> u.b6, ucodeSpl |-> u.b7]

\* tcbMeetsMinimum(tcb, min)
tcbMeetsMinimum(tcb, min) ==
  /\ tcb.blSpl >= min.blSpl
  /\ tcb.teeSpl >= min.teeSpl
  /\ tcb.snpSpl >= min.snpSpl
  /\ tcb.ucodeSpl >= min.ucodeSpl

\* TCBs all of whose parts are at one level, and the ones that leave that
\* level in one part.
TcbParts ==
  { t \in [blSpl : 0..MaxSpl, teeSpl : 0..MaxSpl, snpSpl : 0..MaxSpl,
           ucodeSpl : 0..MaxSpl] :
      \E b \in 0..MaxSpl :
        Cardinality({k \in DOMAIN t : t[k] # b}) <= 1 }
PackedTcbs ==
  { PackedTcb(t.blSpl, t.teeSpl, 0, t.snpSpl, t.ucodeSpl) : t \in TcbParts }
NoTcb == [blSpl |-> NoNumber, teeSpl |-> NoNumber, snpSpl |-> NoNumber,
          ucodeSpl |-> NoNumber]
TcbLevel(b) == [blSpl |-> b, teeSpl |-> b, snpSpl |-> b, ucodeSpl |-> b]

\* The HWID extension of a VCEK that has none.
NoExtension == <<0 - 1>>
ChipIds == {<<0, 0>>, <<0, 1>>, <<1, 0>>}

ReportThrows(cls, reason) == [status |-> "threw", cls |-> cls, reason |-> reason]
ReportAccepted == [status |-> "returned", cls |-> "none", reason |-> "-"]

\* chain.validateVcekTcb(tcb): the SPL extensions of the VCEK equal the
\* parts of the reported TCB.
validateVcekTcb(chain, tcb) == chain.tcb = tcb

\* Variant of validateVcekHwid that accepts a VCEK without HWID extension.
validateVcekHwidIfPresent(chain, chipId) ==
  chain.hwid = NoExtension \/ chain.hwid = chipId

\* chain.validateVcekHwid(chipId): the HWID extension is there and holds
\* the bytes of chipId.
validateVcekHwid(chain, chipId) ==
  chain.hwid # NoExtension /\ chain.hwid = chipId

\* The report, with every check passing under every option, that the
\* inputs below depart from.
NominalReport ==
  [policy |-> [abiMajor |-> 1, abiMinor |-> 0, flags |-> {"smt"}],
   guestSvn |-> 0, vmpl |-> 0,
   currentBuild |-> 21, committedBuild |-> 21,
   currentMajor |-> 1, committedMajor |-> 1,
   currentMinor |-> 55, committedMinor |-> 55,
   currentTcb |-> PackedTcb(1, 1, 0, 1, 1),
   committedTcb |-> PackedTcb(1, 1, 0, 1, 1),
   reportedTcb |-> PackedTcb(1, 1, 0, 1, 1),
   launchTcb |-> PackedTcb(1, 1, 0, 1, 1),
   vcekSigned |-> TRUE, maskChipKey |-> FALSE, chipId |-> <<0, 1>>,
   fieldsOk |-> TRUE, platformOk |-> TRUE]
NominalChain == [tcb |-> TcbLevel(1), hwid |-> <<0, 1>>]

\* No requirement at all.
NoOptions ==
  [guestPolicy |-> NoPolicy, hasGuestPolicy |-> FALSE,
   minimumGuestSvn |-> NoNumber, minimumBuild |-> NoNumber,
   minimumVersion |-> NoNumber, minimumTcb |-> NoTcb,
   minimumLaunchTcb |-> NoTcb, vmpl |-> NoNumber,
   permitProvisionalFirmware |-> FALSE, requireAuthorKey |-> FALSE,
   requireIdBlock |-> FALSE]

\* The last check of validateReport.
IdBlockCheck(options) ==
  IF options.requireAuthorKey \/ options.requireIdBlock
  THEN ReportThrows("ValidationError", "ID-block and author key not supported")
  ELSE ReportAccepted

\* Variant of CommittedCheck that compares the firmware versions and
\* builds but not the TCBs.
CommittedCheckButTcb(report, options) ==
  IF report.committedBuild # report.currentBuild
  THEN ReportThrows("ValidationError", "committed build")
  ELSE IF report.committedMinor # report.currentMinor
  THEN ReportThrows("ValidationError", "committed minor")
  ELSE IF report.committedMajor # report.currentMajor
  THEN ReportThrows("ValidationError", "committed major")
  ELSE IdBlockCheck(options)

\* The committed and current values must be equal.
CommittedCheck(report, options) ==
  IF report.committedBuild # report.currentBuild
  THEN ReportThrows("ValidationError", "committed build")
  ELSE IF report.committedMinor # report.currentMinor
  THEN ReportThrows("ValidationError", "committed minor")
  ELSE IF report.committedMajor # report.currentMajor
  THEN ReportThrows("ValidationError", "committed major")
  ELSE IF report.committedTcb # report.currentTcb
  THEN ReportThrows("ValidationError", "committed TCB")
  ELSE IdBlockCheck(options)

\* The checks from the CHIP_ID check on: HWID, the platform info and
\* field checks that follow it, VMPL, provisional firmware.
ChipIdCheck(report, chain, options) ==
  IF /\ report.vcekSigned
     /\ report.maskChipKey
     /\ \E i \in DOMAIN report.chipId : report.chipId[i] # 0
  THEN ReportThrows("ValidationError", "CHIP_ID not zeroed")
  ELSE IF /\ report.vcekSigned
          /\ ~report.maskChipKey
          /\ ~validateVcekHwid(chain, report.chipId)
  THEN ReportThrows("AttestationError", "VCEK HWID")
  ELSE IF ~report.platformOk
  THEN ReportThrows("ValidationError", "platform info")
  ELSE IF options.vmpl # NoNumber /\ ~(0 <= report.vmpl /\ report.vmpl <= 3)
  THEN ReportThrows("ValidationError", "VMPL range")
  ELSE IF options.vmpl # NoNumber /\ report.vmpl # options.vmpl
  THEN ReportThrows("ValidationError", "VMPL mismatch")
  ELSE IF options.permitProvisionalFirmware
  THEN ReportThrows("ValidationError", "provisional firmware not supported")
  ELSE CommittedCheck(report, options)

\* Variant of TcbCheck that holds only the current TCB against minimumTcb
\* and leaves the launch TCB alone.
TcbCheckCurrentOnly(report, chain, options) ==
  IF /\ options.minimumTcb # NoTcb
     /\ ~tcbMeetsMinimum(tcbFromInt(report.currentTcb), options.minimumTcb)
  THEN ReportThrows("ValidationError", "current TCB")
  ELSE IF ~validateVcekTcb(chain, tcbFromInt(report.reportedTcb))
  THEN ReportThrows("AttestationError", "VCEK TCB")
  ELSE IF ~report.fieldsOk THEN ReportThrows("ValidationError", "field")
  ELSE ChipIdCheck(report, chain, options)

\* The TCB requirements and what follows them.
TcbCheck(report, chain, options) ==
  IF /\ options.minimumTcb # NoTcb
     /\ ~tcbMeetsMinimum(tcbFromInt(report.currentTcb), options.minimumTcb)
  THEN ReportThrows("ValidationError", "current TCB")
  ELSE IF /\ options.minimumTcb # NoTcb
          /\ ~tcbMeetsMinimum(tcbFromInt(report.committedTcb),
                              options.minimumTcb)
  THEN ReportThrows("ValidationError", "committed TCB below minimum")
  ELSE IF /\ options.minimumTcb # NoTcb
          /\ ~tcbMeetsMinimum(tcbFromInt(report.reportedTcb),
                              options.minimumTcb)
  THEN ReportThrows("ValidationError", "reported TCB")
  ELSE IF ~validateVcekTcb(chain, tcbFromInt(report.reportedTcb))
  THEN ReportThrows("AttestationError", "VCEK TCB")
  ELSE IF /\ options.minimumLaunchTcb # NoTcb
          /\ ~tcbMeetsMinimum(tcbFromInt(report.launchTcb),
                              options.minimumLaunchTcb)
  THEN ReportThrows("ValidationError", "launch TCB")
  ELSE IF ~report.fieldsOk THEN ReportThrows("ValidationError", "field")
  ELSE ChipIdCheck(report, chain, options)

\* (major << 8) | minor
FirmwareVersion(major, minor) == major * 256 + minor

\* Variant of validateReport without the checks from the CHIP_ID check on.
validateReportSilent(report, chain, options) ==
  IF /\ options.hasGuestPolicy
     /\ validatePolicy(report.policy, options.guestPolicy) # PolicyAccepted
  THEN ReportThrows("ValidationError", "policy")
  ELSE IF options.minimumGuestSvn # NoNumber
          /\ report.guestSvn < options.minimumGuestSvn
  THEN ReportThrows("ValidationError", "guest SVN")
  ELSE IF ~validateVcekTcb(chain, tcbFromInt(report.reportedTcb))
  THEN ReportThrows("AttestationError", "VCEK TCB")
  ELSE IF ~report.fieldsOk THEN ReportThrows("ValidationError", "field")
  ELSE ReportAccepted

\* validateReport(report, chain, options), its checks in their order.
validateReport(report, chain, options) ==
  IF /\ options.hasGuestPolicy
     /\ validatePolicy(report.policy, options.guestPolicy) # PolicyAccepted
  THEN ReportThrows("ValidationError", "policy")
  ELSE IF options.minimumGuestSvn # NoNumber
          /\ report.guestSvn < options.minimumGuestSvn
  THEN ReportThrows("ValidationError", "guest SVN")
  ELSE IF options.minimumBuild # NoNumber
          /\ (report.currentBuild < options.minimumBuild
              \/ report.committedBuild < options.minimumBuild)
  THEN ReportThrows("ValidationError", "build")
  ELSE IF options.minimumVersion # NoNumber
          /\ (FirmwareVersion(report.currentMajor, report.currentMinor)
                < options.minimumVersion
              \/ FirmwareVersion(report.committedMajor, report.committedMinor)
                   < options.minimumVersion)
  THEN ReportThrows("ValidationError", "version")
  ELSE TcbCheck(report, chain, options)

NoReportResult == [status |-> "none", cls |-> "none", reason |-> "-"]
ValidateIdle ==
  vr = [report |-> NominalReport, chain |-> NominalChain,
        options |-> NoOptions, out |-> NoReportResult]

\* Reports and options around the unsupported options: any of the
\* earlier checks may fail.
UnsupportedOptionInputs ==
  \E svn \in 0..1, vmpl \in {0, 4}, build \in 21..22, chainOk \in BOOLEAN,
     fieldsOk \in BOOLEAN, minSvn \in {NoNumber, 0, 1},
     minBuild \in {NoNumber, 22}, ovmpl \in {NoNumber, 0},
     permit \in BOOLEAN, author \in BOOLEAN, idBlock \in BOOLEAN :
    vr = [report |-> [NominalReport EXCEPT !.guestSvn = svn, !.vmpl = vmpl,
                        !.committedBuild = build, !.fieldsOk = fieldsOk],
          chain |-> IF chainOk THEN NominalChain
                    ELSE [NominalChain EXCEPT !.tcb = TcbLevel(0)],
          options |-> [NoOptions EXCEPT !.minimumGuestSvn = minSvn,
                         !.minimumBuild = minBuild, !.vmpl = ovmpl,
                         !.permitProvisionalFirmware = permit,
                         !.requireAuthorKey = author,
                         !.requireIdBlock = idBlock],
          out |-> NoReportResult]

\* Reports and options around the TCB requirements.
TcbInputs ==
  \E cur \in PackedTcbs, com \in PackedTcbs, rep \in PackedTcbs,
     lau \in PackedTcbs, min \in {NoTcb, TcbLevel(0), TcbLevel(MaxSpl)},
     minLaunch \in {NoTcb, TcbLevel(MaxSpl)} :
    vr = [report |-> [NominalReport EXCEPT !.currentTcb = cur,
                        !.committedTcb = com, !.reportedTcb = rep,
                        !.launchTcb = lau],
          chain |-> [NominalChain EXCEPT !.tcb = tcbFromInt(rep)],
          options |-> [NoOptions EXCEPT !.minimumTcb = min,
                         !.minimumLaunchTcb = minLaunch],
          out |-> NoReportResult]

\* Reports and chains around the CHIP_ID check.
ChipIdInputs ==
  \E vcekSigned \in BOOLEAN, mask \in BOOLEAN, chipId \in ChipIds,
     hwid \in ChipIds \cup {NoExtension, <<0>>}, platformOk \in BOOLEAN,
     idBlock \in BOOLEAN :
    vr = [report |-> [NominalReport EXCEPT !.vcekSigned = vcekSigned,
                        !.maskChipKey = mask, !.chipId = chipId,
                        !.platformOk = platformOk],
          chain |-> [NominalChain EXCEPT !.hwid = hwid],
          options |-> [NoOptions EXCEPT !.requireIdBlock = idBlock],
          out |-> NoReportResult]

\* Reports around the committed and current values, under options that
\* bear on them or on nothing.
CommittedInputs ==
  \E build \in 21..22, major \in 1..2, minor \in 54..55,
     mid \in 0..1, ucode \in 0..1, minBuild \in {NoNumber, 21},
     minVersion \in {NoNumber, FirmwareVersion(1, 54)},
     min \in {NoTcb, TcbLevel(0)}, policy \in BOOLEAN, permit \in BOOLEAN :
    vr = [report |-> [NominalReport EXCEPT !.committedBuild = build,
                        !.committedMajor = major, !.committedMinor = minor,
                        !.committedTcb = PackedTcb(1, 1, mid, 1, ucode)],
          chain |-> NominalChain,
          options |-> [NoOptions EXCEPT !.minimumBuild = minBuild,
                         !.minimumVersion = minVersion, !.minimumTcb = min,
                         !.hasGuestPolicy = policy,
                         !.guestPolicy = NominalReport.policy,
                         !.permitProvisionalFirmware = permit],
          out |-> NoReportResult]

ValidateInputs ==
  UnsupportedOptionInputs \/ TcbInputs \/ ChipIdInputs \/ CommittedInputs

\* validateReport(report, chain, options)
ValidateReportCall ==
  /\ vr.out.status = "none"
  /\ vr' = [vr EXCEPT !.out = validateReport(vr.report, vr.chain, vr.options)]
  /\ UNCHANGED <<vvars, avars, cvars, cert, meas, sig, dc, ctor, vk, vc, ct, pol>>

----------------------------------------------------------------------------
\* The client the specifications of single functions leave untouched.
ClientIdle ==
  /\ ClientInit
  /\ config = [enclaveURL |-> NoURL, baseURL |-> NoURL]

\* The functions checked on their own, none of them called.
IdleExcept(v) ==
  /\ v # "cert" => CertIdle
  /\ v # "meas" => MeasIdle
  /\ v # "sig" => SigIdle
  /\ v # "dc" => DcodeIdle
  /\ v # "ctor" => CtorIdle
  /\ v # "vk" => VcekIdle
  /\ v # "vr" => ValidateIdle
  /\ v # "vc" => VerifyChainIdle
  /\ v # "ct" => TransportIdle
  /\ v # "pol" => PolicyIdle
CertOnly == IdleExcept("cert")
MeasOnly == IdleExcept("meas")
SigOnly == IdleExcept("sig")
DcodeOnly == IdleExcept("dc")
CtorOnly == IdleExcept("ctor")

Init == VerifierInit /\ AsmInit /\ ClientInit /\ IdleExcept("none")
InitCert == VerifierInit /\ AsmInit /\ ClientIdle /\ CertInputs /\ CertOnly
SpecCert == InitCert /\ [][VerifyCertificateCall]_vars
InitMeas == VerifierInit /\ AsmInit /\ ClientIdle /\ MeasInputs /\ MeasOnly
SpecMeas == InitMeas /\ [][CompareMeasurementsCall]_vars
InitSig == VerifierInit /\ AsmInit /\ ClientIdle /\ SigInputs /\ SigOnly
SpecSig == InitSig /\ [][VerifySigstoreBundleCall]_vars
InitDcode == VerifierInit /\ AsmInit /\ ClientIdle /\ DcodeInputs /\ DcodeOnly
SpecDcode == InitDcode /\ [][DecodeDomainsCall]_vars
InitCtor == VerifierInit /\ AsmInit /\ ClientIdle /\ CtorInputs /\ CtorOnly
SpecCtor == InitCtor /\ [][ConstructCall]_vars
InitVcek == VerifierInit /\ AsmInit /\ ClientIdle /\ VcekInputs /\ IdleExcept("vk")
SpecVcek == InitVcek /\ [][VcekNext]_vars
InitValidate ==
  VerifierInit /\ AsmInit /\ ClientIdle /\ ValidateInputs /\ IdleExcept("vr")
SpecValidate == InitValidate /\ [][ValidateReportCall]_vars
InitVerifyChain ==
  VerifierInit /\ AsmInit /\ ClientIdle /\ VerifyChainInputs /\ IdleExcept("vc")
SpecVerifyChain == InitVerifyChain /\ [][VerifyChainNext]_vars
InitTransport ==
  VerifierInit /\ AsmInit /\ ClientIdle /\ TransportInputs /\ IdleExcept("ct")
SpecTransport == InitTransport /\ [][CreateTransportCall]_vars
InitPolicy ==
  VerifierInit /\ AsmInit /\ ClientIdle /\ PolicyInputs /\ IdleExcept("pol")
SpecPolicy == InitPolicy /\ [][ValidatePolicyCall]_vars
SpecVerifier == Init /\ [][VerifierNext]_vars
SpecAsm == Init /\ [][AsmNext]_vars
Spec == Init /\ [][Next]_vars

\* What goes on by itself once started: the awaited operations of an
\* initialization settle and its continuations run ...
FlightStep(f) ==
  \/ BundleFetched(f) \/ BundleFetchFails(f)
  \/ VerifyResolves(f) \/ VerifyRejects(f)
  \/ TransportCreated(f) \/ TransportCreationFails(f)
  \/ ReadyCatchTransient(f) \/ ReadyCatchRethrows(f)
  \/ RetryDelayElapsed(f)

\* ... and so do the ones of a call of ready() or fetch().
CallStep(c) ==
  \/ ReadySettles(c) \/ FetchReadyRejected(c) \/ FetchDispatch(c)
  \/ TransportResponds(c) \/ TransportThrows(c) \/ TransportKeyMismatch(c)
  \/ FetchRedispatch(c) \/ TransportSettlesRetry(c)

\* No step of ready() or fetch() depends on the URLs: one configuration
\* stands for all when asking whether calls settle.
InitLive ==
  /\ Init
  /\ config = [enclaveURL |-> ConfigEnclaveURL, baseURL |-> ConfigBaseURL]

\* Every network, verification and transport operation settles and the
\* event loop runs every continuation that is due; callers are free to
\* make their calls or not.
SpecLive ==
  /\ InitLive
  /\ [][Next]_vars
  /\ \A f \in Flights : WF_vars(FlightStep(f))
  /\ \A c \in Callers : WF_vars(CallStep(c))

----------------------------------------------------------------------------
(* Claims about SecureClient.ready and SecureClient.fetch, checked under   *)
(* Spec.                                                                   *)

\* An initialization is in flight: its promise has not settled.
InFlight(f) ==
  flights[f].pos \in {"fetchBundle", "verify", "createTransport",
                      "passFailed", "delay"}

TransientClasses == {"FetchError", "AttestationError"}

\* What a ready() call awaiting flight f settles with.
FlightOutcome(f) ==
  IF flights[f].pos = "resolved" THEN CErr("ok", "ready") ELSE flights[f].err

\* C1: on a client on which reset() is not called, every ready() call made
\* while an initialization is in flight (the retry delay included) joins
\* that initialization: there is never a second one beside it, it runs one
\* pass, or two when the first failed with a transient error, and all its
\* callers settle with its outcome.
C1_SingleFlight ==
  resets = 0 =>
    /\ \A f \in Flights :
         InFlight(f) \/ flights[f].pos = "resolved" =>
           initPromise = f /\ ReadyFlight = f
    /\ \A f, g \in Flights : InFlight(f) /\ InFlight(g) => f = g
    /\ \A f \in Flights :
         /\ flights[f].pass <= 2
         /\ flights[f].pos = "delay" =>
              flights[f].pass = 1 /\ flights[f].err.cls \in TransientClasses
    /\ \A c \in Callers :
         calls[c].kind = "ready" /\ calls[c].pos = "done" =>
           calls[c].outcome = FlightOutcome(calls[c].flight)
    /\ \A c, d \in Callers :
         /\ calls[c].kind = "ready" /\ calls[d].kind = "ready"
         /\ calls[c].pos = "done" /\ calls[d].pos = "done"
         /\ calls[c].flight = calls[d].flight
         => calls[c].outcome = calls[d].outcome

C1_Witness ==
  /\ resets = 0
  /\ \A c \in Callers :
       /\ calls[c].kind = "ready"
       /\ calls[c].pos = "done"
       /\ calls[c].flight = 1
       /\ calls[c].outcome.cls = "ok"
  /\ flights[1].pass = 2
  /\ nflights = 1

\* Every request was sent on a transport that a pass installed after its
\* verifyBundle resolved, and the ready() awaited before the send resolved.
SentOnInstalledTransport ==
  \A c \in Callers :
    /\ \A i \in 1..Len(calls[c].sends) :
         LET t == calls[c].sends[i] IN
         /\ t # NoTransport
         /\ flights[t.flight].pos = "resolved"
         /\ flights[t.flight].pass = t.pass
    /\ calls[c].sends # <<>> /\ calls[c].recovery = 0 =>
         flights[calls[c].flight].pos = "resolved"
    /\ Len(calls[c].sends) = 2 =>
         flights[calls[c].recovery].pos = "resolved"
    /\ calls[c].kind = "ready" => calls[c].sends = <<>>

\* C2: client.fetch never calls the session transport unless an
\* initialization pass completed successfully beforehand; when verifyBundle
\* fails, createSecureFetch is not called, no transport is installed and no
\* request is sent.
C2_NoSendBeforeVerified ==
  [][/\ SentOnInstalledTransport'
     /\ \A f \in Flights :
          LET a == flights[f]
              b == flights'[f] IN
          /\ b.pos = "createTransport" /\ a.pos # "createTransport" =>
               a.pos = "verify" /\ b.err = NoErr
          /\ a.pos = "verify" /\ b.err # NoErr =>
               /\ b.pos = "passFailed"
               /\ transport' = transport
               /\ \A c \in Callers : calls'[c].sends = calls[c].sends
     /\ transport' # transport /\ transport' # NoTransport =>
          \E f \in Flights :
            /\ flights[f].pos = "createTransport"
            /\ flights'[f].pos = "resolved"
            /\ transport' = [flight |-> f, pass |-> flights[f].pass]
            /\ verificationDocument'.securityVerified]_vars

C2_Witness ==
  \E c, d \in Callers :
    /\ calls[c].kind = "fetch"
    /\ calls[c].pos = "done"
    /\ calls[c].sends = <<>>
    /\ calls[c].outcome.cls = "AttestationError"
    /\ calls[d].kind = "fetch"
    /\ Len(calls[d].sends) = 1

\* C3 as stated: a fetch whose transport threw a KeyConfigMismatchError has
\* performed exactly one extra attestation pass and has sent the request
\* exactly once more.
C3_ExactlyOneReinitAndResend ==
  \A c \in Callers :
    calls[c].pos = "done" /\ calls[c].recovery # 0 =>
      /\ Len(calls[c].sends) = 2
      /\ flights[calls[c].recovery].pass = 1

\* C3: when the transport throws a KeyConfigMismatchError, client.fetch
\* resets the client and starts exactly one new ready() flight (one pass,
\* or two when the first fails transiently); it re-sends the request at
\* most once, and only after that flight resolved; when the flight rejects
\* fetch rejects with its error without re-sending.  Any other error of the
\* transport is rethrown unchanged, without reset and without a new pass.
C3_KeyMismatchRecovery ==
  [][\A c \in Callers :
       LET a == calls[c]
           b == calls'[c] IN
       /\ a.pos = "sent" /\ b.pos = "awaitRecovery" =>
            /\ b.thrown.cls = "KeyConfigMismatchError"
            /\ resets' = resets + 1
            /\ transport' = NoTransport
            /\ nflights' = nflights + 1
            /\ initPromise' = nflights'
            /\ b.recovery = nflights'
            /\ flights'[nflights'].pos = "fetchBundle"
            /\ flights'[nflights'].pass = 1
       /\ a.pos = "sent" /\ b.pos = "done" /\ b.thrown # NoErr =>
            /\ b.thrown.cls # "KeyConfigMismatchError"
            /\ b.outcome = b.thrown
            /\ b.recovery = 0
            /\ UNCHANGED <<initPromise, transport, verificationDocument,
                           resolvedEnclaveURL, resolvedBaseURL, flights,
                           nflights, resets>>
       /\ a.recovery # 0 =>
            /\ b.recovery = a.recovery
            /\ b.flight = a.recovery
            /\ Len(b.sends) <= 2
            /\ flights'[b.recovery].pass \in 1..2
       /\ Len(b.sends) = 2 /\ Len(a.sends) = 1 =>
            /\ a.pos = "awaitRecovery"
            /\ flights[a.recovery].pos = "resolved"
       /\ a.pos = "awaitRecovery" /\ b.pos = "done" =>
            /\ Len(b.sends) = 1
            /\ \/ /\ flights[a.recovery].pos = "rejected"
                  /\ b.outcome = flights[a.recovery].err
               \/ /\ flights[a.recovery].pos = "resolved"
                  /\ transport = NoTransport
                  /\ b.outcome.cls = "TypeError"]_vars

C3_Witness ==
  \E c \in Callers :
    /\ calls[c].pos = "done"
    /\ calls[c].recovery # 0
    /\ calls[c].thrown.cls = "KeyConfigMismatchError"
    /\ Len(calls[c].sends) = 2
    /\ calls[c].sends[1] # calls[c].sends[2]
    /\ flights[calls[c].recovery].pass = 2
    /\ calls[c].outcome = CErr("ok", "send2")

\* C4: within one ready() flight initialization is attempted at most twice;
\* the second attempt is made, after derived state was cleared and the
\* delay elapsed, if and only if the first failed with a FetchError or an
\* AttestationError; on any other error ready() rejects with it after one
\* attempt, and when the second attempt fails ready() rejects with the
\* second attempt's error.
C4_AtMostTwoAttempts ==
  [][\A f \in Flights :
       LET a == flights[f]
           b == flights'[f] IN
       /\ b.pass <= 2
       /\ b.pass # a.pass =>
            /\ b.pass = a.pass + 1
            /\ b.pos = "fetchBundle"
            /\ a.pass = 1 => a.pos = "delay"
       /\ b.pos = "delay" /\ a.pos # "delay" =>
            /\ a.pos = "passFailed"
            /\ a.pass = 1
            /\ a.err.cls \in TransientClasses
            /\ transport' = NoTransport
            /\ verificationDocument' = createPendingVerificationDocument
            /\ resolvedEnclaveURL' = NoURL
            /\ resolvedBaseURL' = NoURL
            /\ initPromise' = initPromise
       /\ a.pos = "passFailed" /\ b # a =>
            IF a.pass = 1 /\ a.err.cls \in TransientClasses
            THEN b.pos = "delay"
            ELSE b.pos = "rejected" /\ b.err = a.err
       /\ a.pos = "delay" /\ b # a => b.pos = "fetchBundle" /\ b.pass = 2
       /\ b.pos = "rejected" =>
            /\ b.err.msg = PassMsg(b.pass)
            /\ b.pass = 1 => b.err.cls \notin TransientClasses]_vars

C4_Witness ==
  \E f \in Flights :
    /\ flights[f].pos = "rejected"
    /\ flights[f].pass = 2
    /\ flights[f].err = CErr("AttestationError", "pass2")
    /\ \E c \in Callers :
         /\ calls[c].pos = "done"
         /\ calls[c].flight = f
         /\ calls[c].outcome = flights[f].err

----------------------------------------------------------------------------
(* Claims about Verifier.verifyBundle, checked under SpecVerifier.         *)

StepStatus(steps, name) == steps[name].status

\* C5: verifyBundle executes its steps strictly in the order verifyEnclave,
\* verifyCode, compareMeasurements, verifyCertificate; when a step fails no
\* later step is executed and each later step's status remains pending.
C5_StepsInOrder ==
  /\ Len(vlog) <= Len(VerifyOrder)
  /\ \A i \in 1..Len(vlog) : vlog[i] = VerifyOrder[i]
  /\ vpc \in {"buildDocument", "returned"} => vlog = VerifyOrder
  /\ \A i \in 1..Len(VerifyOrder) :
       /\ i > Len(vlog) => StepStatus(vsteps, VerifyOrder[i]) = "pending"
       /\ StepStatus(vsteps, VerifyOrder[i]) = "failed" =>
            /\ Len(vlog) = i
            /\ vpc = "threw"
            /\ \A j \in (i + 1)..Len(VerifyOrder) :
                 StepStatus(vsteps, VerifyOrder[j]) = "pending"

C5_Witness ==
  /\ vpc = "threw"
  /\ vlog = <<"verifyEnclave", "verifyCode">>
  /\ StepStatus(vsteps, "verifyCode") = "failed"
  /\ StepStatus(vsteps, "compareMeasurements") = "pending"

AllFiveSuccess(doc) == \A s \in AllSteps : StepStatus(doc.steps, s) = "success"

FailedStepIndex ==
  IF \E i \in 1..Len(VerifyOrder) :
       StepStatus(vsteps, VerifyOrder[i]) = "failed"
  THEN CHOOSE i \in 1..Len(VerifyOrder) :
         StepStatus(vsteps, VerifyOrder[i]) = "failed"
  ELSE 0

\* The steps a failure at step i with error e must leave behind.
ExpectedFailureSteps(i, e) ==
  [s \in AllSteps |->
     IF s = "fetchDigest" THEN Success
     ELSE IF IndexOfStep(s) < i THEN Success
     ELSE IF IndexOfStep(s) = i THEN [status |-> "failed", error |-> e.msg]
     ELSE Pending]

\* C7: when a step of verifyBundle fails, verifyBundle throws that step's
\* error and the Verifier's document afterwards has securityVerified=false,
\* with fetchDigest and every earlier step marked success, the failing step
\* marked failed with the error's message, and every later step pending.
C7_FailureDocument ==
  FailedStepIndex # 0 =>
    /\ vpc = "threw"
    /\ vthrown \in Errors
    /\ vdoc.defined
    /\ vdoc.securityVerified = FALSE
    /\ vdoc.enclaveHost = vdomain
    /\ vdoc.steps = ExpectedFailureSteps(FailedStepIndex, vthrown)

C7_Witness ==
  /\ vpc = "threw"
  /\ FailedStepIndex = 3
  /\ vthrown = [cls |-> "AttestationError", msg |-> "m2"]
  /\ vdoc.steps["compareMeasurements"] = [status |-> "failed", error |-> "m2"]
  /\ vcalls = 2

----------------------------------------------------------------------------
(* Claims about the client's document and reset(), checked under Spec, and *)
(* about withRetry, checked under SpecAsm.                                 *)

\* C8 as stated: after ready() rejected because a verification step failed
\* (no reset() by a caller, no other initialization), the client's document
\* records the failure: securityVerified=false and a step marked failed.
C8_FailureDocumentKept ==
  \A c \in Callers :
    /\ calls[c].kind = "ready"
    /\ calls[c].pos = "done"
    /\ calls[c].outcome.cls = "AttestationError"
    /\ nflights = 1
    /\ resets = 0
    => /\ verificationDocument.securityVerified = FALSE
       /\ \E st \in DOMAIN verificationDocument.steps :
            verificationDocument.steps[st].status = "failed"

\* The client holds nothing derived from an attestation.
Uninitialized ==
  /\ transport = NoTransport
  /\ resolvedEnclaveURL = NoURL
  /\ resolvedBaseURL = NoURL
  /\ verificationDocument = createPendingVerificationDocument

\* C9: immediately after reset() both URLs are undefined, no transport is
\* cached and the document is the pending one; the next ready() or fetch()
\* starts a fresh pass, and that pass derives the URLs again from the
\* configuration, which never changes.
C9_ResetThenFreshPass ==
  [][/\ config' = config
     /\ resets' # resets =>
          /\ Uninitialized'
          /\ initPromise' = 0 \/
               (initPromise' = nflights + 1 /\ nflights' = nflights + 1)
     /\ \A c \in Callers :
          initPromise = 0 /\ calls[c].pos = "idle" /\ calls'[c].pos # "idle" =>
            /\ nflights' = nflights + 1
            /\ initPromise' = nflights'
            /\ calls'[c].flight = nflights'
            /\ flights'[nflights'].pos = "fetchBundle"
            /\ flights'[nflights'].pass = 1
     /\ \A f \in Flights :
          flights[f].pos = "fetchBundle" /\ flights'[f].pos = "verify" =>
            /\ resolvedEnclaveURL' =
                 IF config.enclaveURL # NoURL THEN config.enclaveURL
                 ELSE <<"https://", flights'[f].domain>>
            /\ resolvedBaseURL' =
                 IF config.baseURL # NoURL THEN config.baseURL
                 ELSE resolvedEnclaveURL' \o <<"/v1/">>]_vars

C9_Witness ==
  /\ resets = 1
  /\ nflights = 2
  /\ flights[1].pos = "resolved"
  /\ flights[2].pos = "resolved"
  /\ transport = [flight |-> 2, pass |-> 1]
  /\ resolvedEnclaveURL # NoURL
  /\ resolvedBaseURL # NoURL
  /\ verificationDocument.securityVerified
  /\ \E c \in Callers : calls[c].pos = "done" /\ calls[c].flight = 2

\* C10: each use of withRetry attempts the wrapped fetch at most 3 times, a
\* further attempt is made only after an attempt failed with a FetchError,
\* after the third failure the last error is rethrown, and no URL is
\* requested more than 3 times by one assembly.
C10_RetryBound ==
  /\ \A u \in Uses :
       LET r == ar[u] IN
       /\ r.attempts <= 3
       /\ r.st = "backoff" \/ (r.st = "pending" /\ r.attempts >= 1) =>
            r.err.cls = "FetchError" /\ r.err.attempt = r.attempts
       /\ r.st = "backoff" => r.attempts < 3
       /\ r.st = "threw" =>
            /\ r.err.attempt = r.attempts
            /\ r.attempts = 3 \/ r.err.cls # "FetchError"
  /\ \A x \in Urls : areq[x] <= 3

C10_Witness ==
  \E u \in Uses :
    /\ ar[u].st = "threw"
    /\ ar[u].attempts = 3
    /\ ar[u].err = [cls |-> "FetchError", attempt |-> 3]
    /\ areq[PrimaryUrl(u)] = 3
    /\ apc = "threw"
    /\ athrown = ar[u].err

\* C11 as stated: a parse error is never retried.  A use of withRetry whose
\* last failed attempt failed on a body that does not parse has given up:
\* it neither waits for a further attempt nor makes one.
C11_ParseErrorNotRetried ==
  \A u \in Uses :
    acause[u] = "malformedBody" /\ ar[u].err.attempt = ar[u].attempts =>
      ar[u].st = "threw"

\* C12: the Sigstore bundle is requested only after the release digest was
\* fetched, and the VCEK only after the attestation document was fetched
\* and its report parsed; when the digest fetch, the attestation fetch or
\* the parsing of the report fails, the dependent request is never issued.
C12_DependentFetchesAfterPrerequisites ==
  /\ ar["sigstore"].st # "idle" \/ areq["attestations/sha256"] > 0 =>
       ar["digest"].st = "ok"
  /\ ar["vcek"].st # "idle" \/ areq["kds/vcek"] > 0 =>
       /\ ar["attestation"].st = "ok"
       /\ ar["sigstore"].st = "ok"
       /\ ~(apc = "threw" /\ athrown.attempt = 0)
  /\ ar["digest"].st = "threw" =>
       ar["sigstore"].st = "idle" /\ areq["attestations/sha256"] = 0
  /\ ar["attestation"].st = "threw" =>
       ar["vcek"].st = "idle" /\ areq["kds/vcek"] = 0
  /\ apc = "threw" /\ athrown.attempt = 0 =>
       ar["vcek"].st = "idle" /\ areq["kds/vcek"] = 0

C12_Witness ==
  /\ apc = "threw"
  /\ athrown = [cls |-> "FetchError", attempt |-> 0]
  /\ ar["digest"].st = "ok"
  /\ areq["attestations/sha256"] = 2
  /\ ar["sigstore"].st = "ok"
  /\ areq["kds/vcek"] = 0

\* The name d is covered by the SAN: they are equal, or the SAN is *.P and
\* d is one label followed by P.
SanCovers(san, d) ==
  \/ san = d
  \/ /\ Len(san) >= 2
     /\ san[1] = <<"*">>
     /\ Len(d) = Len(san)
     /\ Tail(d) = Tail(san)

SomeSanCovers(sans, d) == \E k \in 1..Len(sans) : SanCovers(sans[k], d)

\* The bytes the SANs that hold the label carry, as decodeDomains gives them.
SanPayload(sans, label) == decodeDomains(sans, label)

\* The three bindings of a certificate to a domain, a key and a document.
CertBindingsHold ==
  /\ cert.pem.parses
  /\ SomeSanCovers(cert.pem.sans, cert.domain)
  /\ SanPayload(cert.pem.sans, HPKE).ok
  /\ bytesToHex(SanPayload(cert.pem.sans, HPKE).bytes) = cert.key
  /\ SanPayload(cert.pem.sans, HATT).ok
  /\ TextDecode(SanPayload(cert.pem.sans, HATT).bytes)
       = bytesToHex(DocDigest(cert.doc))

MeasurementsAgree(a, b) ==
  \/ a.type = b.type /\ a.registers = b.registers
  \/ /\ {a.type, b.type} = {SevGuestV2, SnpTdxMultiplatformV1}
     /\ a.registers # <<>>
     /\ b.registers # <<>>
     /\ Head(a.registers) = Head(b.registers)

\* C14: compareMeasurements(a, b) succeeds exactly when a and b have the
\* same type and registers, or are a SevGuestV2 and a SnpTdxMultiplatformV1
\* with equal first registers; it succeeds on (m, m) and its result does not
\* depend on the order of its arguments.
C14_CompareMeasurements ==
  meas.out # "none" =>
    /\ meas.out = "ok" <=> MeasurementsAgree(meas.a, meas.b)
    /\ meas.a = meas.b => meas.out = "ok"
    /\ meas.out = compareMeasurements(meas.b, meas.a)

C14_Witness ==
  /\ meas.out = "ok"
  /\ meas.a = [type |-> SevGuestV2, registers |-> <<"r1">>]
  /\ meas.b = [type |-> SnpTdxMultiplatformV1, registers |-> <<"r1", "r2">>]

\* Two hex digests that differ at most in the case of their letters.
EqualIgnoringCase(d, e) ==
  /\ Len(d) = Len(e)
  /\ \A k \in 1..Len(d) : toUpperCase(d[k]) = toUpperCase(e[k])

\* A bundle that passes every check of verifySigstoreBundle but, perhaps,
\* the comparison of the digests.
SigBundleWellFormed ==
  /\ sig.bundle.dsse = "ok"
  /\ sig.bundle.parses
  /\ sig.bundle.payloadType = InToto
  /\ sig.bundle.predicateType = SnpTdxMultiplatformV1
  /\ sig.bundle.predicate \in Registers
  /\ sig.bundle.subject # NoSubject

\* C15: verifySigstoreBundle compares the expected digest and
\* payload.subject[0].digest.sha256 as hex, ignoring the case of the
\* letters: a bundle that is fine otherwise is accepted when the two are
\* equal in that sense and rejected with an AttestationError when not.
C15_DigestComparedIgnoringCase ==
  sig.out.status # "none" /\ SigBundleWellFormed =>
    IF EqualIgnoringCase(sig.digest, sig.bundle.subject)
    THEN sig.out.status = "returned"
    ELSE sig.out.status = "threw" /\ sig.out.cls = "AttestationError"

\* C16: verifySigstoreBundle returns a measurement only for an in-toto
\* payload with predicate type SnpTdxMultiplatformV1, and the measurement is
\* that type with the one register predicate.snp_measurement; whatever else
\* happens, an AttestationError is thrown.
C16_MeasurementOrAttestationError ==
  sig.out.status # "none" =>
    /\ sig.out.status \in {"returned", "threw"}
    /\ sig.out.status = "returned" =>
         /\ sig.bundle.dsse = "ok"
         /\ sig.bundle.payloadType = InToto
         /\ sig.bundle.predicateType = SnpTdxMultiplatformV1
         /\ sig.out.type = SnpTdxMultiplatformV1
         /\ sig.out.registers = <<sig.bundle.predicate>>
         /\ sig.bundle.predicate \in Registers
    /\ sig.out.status = "threw" => sig.out.cls = "AttestationError"

C16_Witness ==
  /\ sig.out.status = "returned"
  /\ sig.out.registers = <<"r2">>
  /\ sig.digest = <<"1", "2">>

C18_WildcardCoversOneLabel ==
  cert.out.status # "none" /\ cert.pem.parses /\ cert.pem.sans # <<>> =>
    /\ domainMatchesSans(cert.pem.sans, cert.domain)
         <=> SomeSanCovers(cert.pem.sans, cert.domain)
    /\ cert.out.reason = "domain mismatch"
         <=> ~SomeSanCovers(cert.pem.sans, cert.domain)

\* The URLs the options and the domain d of a bundle resolve to.
ExpectedEnclaveURL(d) ==
  IF config.enclaveURL # NoURL THEN config.enclaveURL ELSE <<"https://", d>>
ExpectedBaseURL(d) ==
  IF config.baseURL # NoURL THEN config.baseURL
  ELSE ExpectedEnclaveURL(d) \o <<"/v1/">>
GettersGive(d) ==
  /\ resolvedEnclaveURL = ExpectedEnclaveURL(d)
  /\ resolvedBaseURL = ExpectedBaseURL(d)

\* C19: when createTransport calls createSecureFetch, and when the
\* initialization then resolves, getEnclaveURL() is config.enclaveURL or
\* else https://{bundle.domain} and getBaseURL() is config.baseURL or else
\* {getEnclaveURL()}/v1/, for the bundle of that initialization.
C19_ResolvedURLs ==
  [][\A f \in Flights :
       /\ flights[f].pos = "verify" /\ flights'[f].pos = "createTransport"
            => GettersGive(flights[f].domain)
       /\ flights[f].pos = "createTransport" /\ flights'[f].pos = "resolved"
            => GettersGive(flights[f].domain)]_vars

\* The options the constructor must refuse: an enclaveURL that does not
\* begin with https://, or a configRepo without an enclaveURL.
OptionsRefused(o) ==
  \/ o.enclaveURL.set /\ ~(o.enclaveURL.s # <<>> /\ Head(o.enclaveURL.s) = "https://")
  \/ o.configRepo.set /\ ~o.enclaveURL.set

\* C20: new SecureClient(options) throws ConfigurationError, with no
\* request sent, when enclaveURL does not begin with https:// or configRepo
\* comes without enclaveURL; an enclaveURL without configRepo only warns and
\* the client is constructed.
C20_ConstructorValidation ==
  ctor.out.status # "none" =>
    /\ ctor.out.requests = 0
    /\ OptionsRefused(ctor.options) =>
         ctor.out.status = "threw" /\ ctor.out.cls = "ConfigurationError"
    /\ ~OptionsRefused(ctor.options) => ctor.out.status = "constructed"
    /\ ctor.out.status = "constructed" =>
         (ctor.out.warned <=>
            ctor.options.enclaveURL.set /\ ~ctor.options.configRepo.set)

\* No initialization pass has reached the point where the verifier's
\* document is captured: every flight is unused or in its first pass, before
\* verifyBundle has settled.
NoVerifierDocumentYet ==
  \A f \in Flights :
    \/ flights[f].pos = "unused"
    \/ flights[f].pass = 1 /\ flights[f].pos \in {"fetchBundle", "verify"}

\* C21: until an initialization pass has produced a verifier document,
\* getVerificationDocument() has securityVerified = false and each of the
\* five steps, verifyCertificate included, present with status pending.
C21_PendingDocumentHasAllSteps ==
  NoVerifierDocumentYet =>
    /\ verificationDocument.defined
    /\ ~verificationDocument.securityVerified
    /\ \A s \in AllSteps :
         /\ s \in DOMAIN verificationDocument.steps
         /\ verificationDocument.steps[s].status = "pending"

\* Two fromReport calls for the same report in a browser, neither given a
\* VCEK, both returned.
BuiltTwice(c, d) ==
  /\ c # d
  /\ vk.browser
  /\ vk.calls[c].pos = "done"
  /\ vk.calls[d].pos = "done"
  /\ vk.calls[c].report = vk.calls[d].report
  /\ ~vk.calls[c].supplied
  /\ ~vk.calls[d].supplied

\* C22 as stated: building the chain twice for a report in a browser makes
\* exactly one VCEK fetch and gives both calls the same bytes.
C22_OneFetchForTwoBuilds ==
  \A c, d \in ChainCalls :
    BuiltTwice(c, d) =>
      /\ vk.fetches[buildVCEKUrl(vk.calls[c].report)] = 1
      /\ vk.calls[c].vcek = vk.calls[d].vcek

\* C22, amended: when the second call starts after the first returned (no
\* third call asking for the same report), and the first either stored its
\* VCEK or was itself served from the cache,
\* the second is served from the cache with the bytes the KDS serves, and
\* at most one fetch was made: one if the first call fetched, none if not.
C22_SecondBuildFromCache ==
  \A c, d \in ChainCalls :
    /\ BuiltTwice(c, d)
    /\ \A e \in ChainCalls \ {c, d} : vk.calls[e].report # vk.calls[c].report
    /\ c \in vk.calls[d].after
    /\ vk.calls[c].stored \/ vk.calls[c].cached
    => /\ vk.calls[d].cached
       /\ vk.calls[d].vcek = vk.calls[c].vcek
       /\ vk.calls[d].vcek = VcekDer(buildVCEKUrl(vk.calls[d].report))
       /\ vk.fetches[buildVCEKUrl(vk.calls[c].report)]
            = IF vk.calls[c].cached THEN 0 ELSE 1

C22_Witness ==
  /\ BuiltTwice(1, 2)
  /\ vk.calls[1].report = "r2"
  /\ vk.calls[1].stored
  /\ vk.calls[2].cached
  /\ vk.calls[2].vcek = <<0, 77>>
  /\ vk.fetches[buildVCEKUrl("r2")] = 1

\* C23: with permitProvisionalFirmware, requireAuthorKey or requireIdBlock
\* set, validateReport throws, whatever the report and the other options.
C23_UnsupportedOptionsThrow ==
  /\ vr.out.status # "none"
  /\ \/ vr.options.permitProvisionalFirmware
     \/ vr.options.requireAuthorKey
     \/ vr.options.requireIdBlock
  => vr.out.status = "threw"

C23_Witness ==
  /\ vr.out.status = "threw"
  /\ vr.out.reason = "ID-block and author key not supported"
  /\ vr.options.requireIdBlock
  /\ ~vr.options.requireAuthorKey
  /\ ~vr.options.permitProvisionalFirmware
  /\ vr.chain = NominalChain
  /\ vr.report.fieldsOk

\* Two clock readings at which every certificate of the chain is on the same
\* side of its validity period.
SameValidity(s, t) ==
  \A k \in {"ark", "ask", "vcek"} :
    validForDate(vc.chain[k], s) <=> validForDate(vc.chain[k], t)

\* C24 as stated: for fixed ARK, ASK and VCEK, repeated invocations of
\* verifyChain() return the same result.
C24_RepeatedCallsSameResult ==
  \A i, j \in DOMAIN vc.results : vc.results[i].out = vc.results[j].out

\* C24, amended: for fixed ARK, ASK and VCEK, invocations of verifyChain()
\* whose clock readings leave every certificate on the same side of its
\* validity period return the same result.
C24_SameResultAtSameValidity ==
  \A i, j \in DOMAIN vc.results :
    SameValidity(vc.results[i].at, vc.results[j].at)
      => vc.results[i].out = vc.results[j].out

C24_Witness ==
  /\ Len(vc.results) = 2
  /\ vc.results[1].at < vc.results[2].at
  /\ SameValidity(vc.results[1].at, vc.results[2].at)
  /\ vc.results[1].out = ChainTrue
  /\ vc.results[2].out = ChainTrue

\* The client's document records some failure: it is not verified, or one
\* of its steps is marked failed.
DocumentRecordsFailure ==
  \/ verificationDocument.securityVerified = FALSE
  \/ \E st \in DOMAIN verificationDocument.steps :
       verificationDocument.steps[st].status = "failed"

\* C25 as stated: when client.fetch has thrown (here with no reset() and no
\* other initialization in between), the client's verification document
\* records the failure.
C25_FetchFailureRecorded ==
  \A c \in Callers :
    /\ calls[c].kind = "fetch"
    /\ calls[c].pos = "done"
    /\ calls[c].outcome.cls # "ok"
    /\ nflights = 1
    /\ resets = 0
    /\ \A d \in Callers \ {c} : calls[d].pos \in {"idle", "done"}
    => DocumentRecordsFailure

\* C26 as stated: whatever makes fetchAttestationBundle fail during the
\* first pass of ready() (network error, non-2xx response, malformed body),
\* the pass fails with a FetchError, which the catch handler of ready()
\* takes as transient and answers with the retry.
C26_BundleFetchFailureIsFetchError ==
  [][\A f \in Flights :
       /\ flights[f].pos = "fetchBundle"
       /\ flights[f].pass = 1
       /\ flights'[f].pos = "passFailed"
       => /\ flights'[f].err.cls = "FetchError"
          /\ IsTransient(flights'[f].err)]_vars

\* C27 as stated: a pass superseded by reset() never installs its results:
\* the transport the client holds was produced by the initialization the
\* init promise stands for, never by an earlier one.
C27_SupersededPassInstallsNothing ==
  transport # NoTransport => transport.flight = initPromise

\* C28 as stated: when fetch dispatches the request after its awaited
\* ready() resolved, the transport is non-null: no fetch ends in the
\* TypeError of calling fetch on a null transport.
C28_TransportPresentAtDispatch ==
  \A c \in Callers :
    calls[c].kind = "fetch" => calls[c].outcome.cls # "TypeError"

\* C29 as stated: fetch calls that received KeyConfigMismatchError from the
\* same transport share one re-attestation pass.
C29_OneSharedRecovery ==
  \A c, d \in Callers :
    /\ calls[c].kind = "fetch"
    /\ calls[d].kind = "fetch"
    /\ calls[c].recovery # 0
    /\ calls[d].recovery # 0
    /\ calls[c].sends[1] = calls[d].sends[1]
    => calls[c].recovery = calls[d].recovery

\* C30: a rejected ready() is not cached.  The step that rejects the
\* promise of ready() leaves the client Uninitialized with no init promise,
\* and a ready() or fetch() called later never awaits a promise that has
\* rejected: with no promise in flight it starts a new pass.
C30_RejectionNotCached ==
  [][/\ \A f \in Flights :
          flights[f].pos # "rejected" /\ flights'[f].pos = "rejected" =>
            /\ initPromise' = 0
            /\ Uninitialized'
     /\ \A c \in Callers :
          calls[c].pos = "idle" /\ calls'[c].pos # "idle" =>
            /\ flights'[calls'[c].flight].pos # "rejected"
            /\ initPromise = 0 =>
                 /\ calls'[c].flight = nflights + 1
                 /\ flights'[calls'[c].flight].pos = "fetchBundle"
                 /\ flights'[calls'[c].flight].pass = 1]_vars

C30_Witness ==
  \E c, d \in Callers :
    /\ calls[c].pos = "done"
    /\ flights[calls[c].flight].pos = "rejected"
    /\ calls[c].outcome = flights[calls[c].flight].err
    /\ calls[d].pos = "awaitReady"
    /\ calls[d].flight > calls[c].flight
    /\ flights[calls[d].flight].pos = "fetchBundle"
    /\ resets = 0

\* C31 as stated: whenever the client holds a transport, its verification
\* document has securityVerified=true and both resolved URLs are defined.
C31_TransportImpliesVerified ==
  transport # NoTransport =>
    /\ verificationDocument.securityVerified = TRUE
    /\ resolvedEnclaveURL # NoURL
    /\ resolvedBaseURL # NoURL

\* C32: when the initialization started by the recovery of fetch rejects,
\* the step that rejects it leaves the client Uninitialized with no init
\* promise, and fetch rejects with that error without sending again; when
\* the second send settles, with whatever error, fetch settles with it and
\* nothing is reset or attested again.
C32_RecoveryFailures ==
  [][\A c \in Callers :
       /\ /\ calls[c].pos = "awaitRecovery"
          /\ flights[calls[c].recovery].pos # "rejected"
          /\ flights'[calls[c].recovery].pos = "rejected"
          => /\ Uninitialized'
             /\ initPromise' = 0
       /\ /\ calls[c].pos = "awaitRecovery"
          /\ calls'[c].pos = "done"
          /\ flights[calls[c].recovery].pos = "rejected"
          => /\ calls'[c].outcome = flights[calls[c].recovery].err
             /\ calls'[c].sends = calls[c].sends
             /\ Len(calls[c].sends) = 1
       /\ /\ calls[c].pos = "resent"
          /\ calls'[c].pos = "done"
          => /\ calls'[c].outcome.msg = "send2"
             /\ Len(calls'[c].sends) = 2
             /\ resets' = resets
             /\ nflights' = nflights
             /\ initPromise' = initPromise
             /\ transport' = transport
             /\ flights' = flights]_vars

C32_Witness ==
  \E c, d \in Callers :
    /\ calls[c].pos = "done"
    /\ calls[c].recovery # 0
    /\ flights[calls[c].recovery].pos = "rejected"
    /\ calls[c].outcome = flights[calls[c].recovery].err
    /\ Len(calls[c].sends) = 1
    /\ calls[d].pos = "done"
    /\ calls[d].outcome = CErr("KeyConfigMismatchError", "send2")
    /\ Len(calls[d].sends) = 2

\* C33: every call of ready() and of fetch() eventually settles; no
\* initialization runs more than two passes, no fetch sends more than twice
\* or recovers more than once.
C33_CallsSettle ==
  /\ \A c \in Callers : (calls[c].pos # "idle") ~> (calls[c].pos = "done")
  /\ [](\A f \in Flights : flights[f].pass <= 2)
  /\ [](\A c \in Callers : Len(calls[c].sends) <= 2)
  /\ [][\A c \in Callers :
          calls[c].recovery # 0 => calls'[c].recovery = calls[c].recovery]_vars

C33_Witness ==
  \E c, d \in Callers :
    /\ calls[c].kind = "ready"
    /\ calls[c].pos = "done"
    /\ flights[calls[c].flight].pass = 2
    /\ calls[d].kind = "fetch"
    /\ calls[d].pos = "done"
    /\ Len(calls[d].sends) = 2
    /\ calls[d].recovery # 0

AbiGreater(required, report) ==
  \/ required.abiMajor > report.abiMajor
  \/ /\ required.abiMajor = report.abiMajor
     /\ required.abiMinor > report.abiMinor

\* C35: validatePolicy rejects exactly when the required ABI version is
\* greater than the report's, or the report enables one of debug, migrateMa,
\* smt, cxlAllowed, memAes256Xts that the requirement does not enable, or
\* the requirement enables one of singleSocket, memAes256Xts, raplDis,
\* ciphertextHidingDram, pageSwapDisabled that the report lacks.
C35_PolicyRejectedIff ==
  pol.out.status # "none" =>
    (pol.out.status = "ValidationError" <=>
       \/ AbiGreater(pol.required, pol.report)
       \/ {"debug", "migrateMa", "smt", "cxlAllowed", "memAes256Xts"}
            \cap (pol.report.flags \ pol.required.flags) # {}
       \/ {"singleSocket", "memAes256Xts", "raplDis", "ciphertextHidingDram",
           "pageSwapDisabled"}
            \cap (pol.required.flags \ pol.report.flags) # {})

C35_Witness ==
  /\ pol.out.status = "ValidationError"
  /\ pol.required.abiMajor = pol.report.abiMajor
  /\ pol.required.abiMinor > pol.report.abiMinor
  /\ pol.report.flags = pol.required.flags
  /\ pol.report.flags # {}

\* The bytes 0, 1, 6 and 7 of a packed TCB are each at least the part of
\* the minimum that they hold.
PartsAtLeast(u, min) ==
  /\ u.b0 >= min.blSpl
  /\ u.b1 >= min.teeSpl
  /\ u.b6 >= min.snpSpl
  /\ u.b7 >= min.ucodeSpl

\* C36: with minimumTcb set, validateReport accepts a report only if its
\* current, committed and reported TCB are each at least minimumTcb in all
\* four parts; with minimumLaunchTcb set, only if its launch TCB is at
\* least minimumLaunchTcb in all four parts.
C36_TcbMinimums ==
  vr.out.status = "returned" =>
    /\ vr.options.minimumTcb # NoTcb =>
         /\ PartsAtLeast(vr.report.currentTcb, vr.options.minimumTcb)
         /\ PartsAtLeast(vr.report.committedTcb, vr.options.minimumTcb)
         /\ PartsAtLeast(vr.report.reportedTcb, vr.options.minimumTcb)
    /\ vr.options.minimumLaunchTcb # NoTcb =>
         PartsAtLeast(vr.report.launchTcb, vr.options.minimumLaunchTcb)

C36_Witness ==
  /\ vr.out.status = "returned"
  /\ vr.options.minimumTcb = TcbLevel(MaxSpl)
  /\ vr.options.minimumLaunchTcb = TcbLevel(MaxSpl)
  /\ vr.report.reportedTcb = vr.report.currentTcb

\* C37: validateReport accepts a VCEK-signed report only if, with
\* maskChipKey set, its chipId is all zero, and otherwise the HWID
\* extension of the VCEK holds the bytes of chipId.
C37_ChipIdBoundToVcek ==
  vr.out.status = "returned" /\ vr.report.vcekSigned =>
    IF vr.report.maskChipKey
    THEN \A i \in DOMAIN vr.report.chipId : vr.report.chipId[i] = 0
    ELSE /\ Len(vr.chain.hwid) = Len(vr.report.chipId)
         /\ \A i \in DOMAIN vr.report.chipId :
              vr.chain.hwid[i] = vr.report.chipId[i]

C37_Witness ==
  /\ vr.out.status = "returned"
  /\ vr.report.vcekSigned
  /\ ~vr.report.maskChipKey
  /\ vr.report.chipId = <<1, 0>>
  /\ vr.chain.hwid = <<1, 0>>

\* C38: validateReport accepts a report only if its committed and current
\* firmware build, major version, minor version and TCB are equal,
\* whatever the options.
C38_CommittedEqualsCurrent ==
  vr.out.status = "returned" =>
    /\ vr.report.committedBuild = vr.report.currentBuild
    /\ vr.report.committedMajor = vr.report.currentMajor
    /\ vr.report.committedMinor = vr.report.currentMinor
    /\ vr.report.committedTcb = vr.report.currentTcb

C38_Witness ==
  /\ vr.out.status = "returned"
  /\ vr.options.minimumBuild # NoNumber
  /\ vr.options.minimumVersion # NoNumber
  /\ vr.options.minimumTcb # NoTcb
  /\ vr.options.hasGuestPolicy
  /\ vr.report.committedTcb = vr.report.currentTcb

\* C39: verifyChain() resolves to true or throws an AttestationError,
\* nothing else; it resolves to true only if ARK, ASK and VCEK pass their
\* format validation, are within their validity period at the time of the
\* call, and the three signatures verify.
C39_TrueOnlyForSoundChain ==
  \A i \in DOMAIN vc.results :
    /\ \/ vc.results[i].out = ChainTrue
       \/ vc.results[i].out.status = "AttestationError"
    /\ vc.results[i].out = ChainTrue =>
         \A k \in {"ark", "ask", "vcek"} :
           /\ vc.chain[k].formatOk
           /\ vc.chain[k].notBefore <= vc.results[i].at
           /\ vc.results[i].at <= vc.chain[k].notAfter
           /\ vc.chain[k].sigOk

C39_Witness ==
  /\ Len(vc.results) = 2
  /\ vc.results[1].out = ChainTrue
  /\ vc.results[2].out.status = "AttestationError"
  /\ vc.results[2].out.error = "VCEK expired"

\* The step is fromReport call c, made for a report that is not of a Genoa
\* processor or not signed by a VCEK, or made with a VCEK supplied.
NoVcekNeeded(c) ==
  /\ vk.calls[c].pos = "idle"
  /\ vk'.calls[c].pos # "idle"
  /\ \/ vk'.calls[c].product # "Genoa"
     \/ vk'.calls[c].signer # "VcekReportSigner"
     \/ vk'.calls[c].supplied

\* C40: fromReport refuses a report that is not of a Genoa processor or not
\* signed by a VCEK with an AttestationError before any fetch and any use of
\* the cache; with a VCEK supplied to an accepted report it returns that
\* VCEK; in all three cases no fetch is made and localStorage is neither
\* read nor written.
C40_NoFetchWhenNotNeeded ==
  [][\A c \in ChainCalls :
       NoVcekNeeded(c) =>
         /\ vk'.fetches = vk.fetches
         /\ vk'.storage = vk.storage
         /\ ~vk'.calls[c].cacheRead
         /\ ~vk'.calls[c].cached
         /\ IF \/ vk'.calls[c].product # "Genoa"
               \/ vk'.calls[c].signer # "VcekReportSigner"
            THEN vk'.calls[c].pos = "threw" /\ vk'.calls[c].vcek = <<>>
            ELSE vk'.calls[c].pos = "done"
                   /\ vk'.calls[c].vcek = SuppliedDer]_vars

C40_Witness ==
  /\ vk.browser
  /\ vk.storage[buildVCEKUrl("r1")] = btoa(VcekDer(buildVCEKUrl("r1")))
  /\ vk.calls[1].report = "r1"
  /\ vk.calls[1].pos = "threw"
  /\ vk.calls[1].signer = "VlekReportSigner"
  /\ vk.calls[1].product = "Genoa"
  /\ vk.calls[2].report = "r1"
  /\ vk.calls[2].pos = "done"
  /\ vk.calls[2].supplied
  /\ vk.fetches[buildVCEKUrl("r1")] = 0

====
